---- MODULE Spec2Model ----
(***************************************************************************)
(* State-machine model of the night-cloud miner fleet coordination code:   *)
(*   - the address registry (registry.json) with its ETag-conditional      *)
(*     writes, the worker-side allocator (assign-addresses.ts), the        *)
(*     heartbeat script (heartbeat.ts) and the leader-run reclaimer        *)
(*     (cleanup-registry.ts);                                              *)
(*   - the solutions ledger and the aggregate stats object                 *)
(*     (solution-tracker.ts);                                              *)
(*   - the mining orchestrator's worker loops (mining-orchestrator.ts,     *)
(*     rust-miner.ts / work-queue.ts).                                     *)
(* Time is counted in seconds; every timestamp of the code (ISO strings,   *)
(* Date.now() milliseconds) is a number of seconds here.                   *)
(***************************************************************************)
EXTENDS Integers, Sequences, FiniteSets, TLC

\* ------------------------------------------------------------------ bounds
NumInstances == 2
NumAddresses == 6
SeedPerInstance == 2
MaxTicks == 2
MaxLongWaits == 1
NumRecorders == 2
NumLedgerAddresses == 2
NumChallenges == 1
MaxCalls == 2
NumMiners == 2
NumWorkItems == 3
NumBuildChallenges == 2
NumNonces == 2
NumAppendChallenges == 2
NumQueueChallenges == 2
NumControllers == 2
MaxDeploys == 1
MaxBuilds == 1
MaxClock == 3
MaxWrites == 64
MaxSubmissions == 3

\* ------------------------------------------------------- program constants
MAX_RETRIES == 10
DEFAULT_ADDRESSES_PER_INSTANCE == 10
AllocStaleThreshold == 90
STALE_THRESHOLD == 1800
CLEANUP_MAX_RETRIES == 60
HeartbeatPeriod == 60
RECENT_CAP == 20
STATS_MAX_RETRIES == 5
DONATION_INTERVAL == 20
INIT_MAX_RETRIES == 3
MaxChallenges == 24
\* challengeFetchInterval (300000 ms) in units of the local clock (5 min)
ChallengeFetchInterval == 1

Instances == 1..NumInstances

\* the seeded address list: address strings are opaque, modelled as 101, 102, ...
AddressList(n) == [i \in 1..n |-> 100 + i]

Restrict(f, S) == [x \in S |-> f[x]]

Min(S) == CHOOSE x \in S : \A y \in S : x <= y

Range(list) == {list[i] : i \in DOMAIN list}

VARIABLES
  now,        \* wall clock, in seconds
  registry,   \* content of registry.json
  etag,       \* ETag of registry.json: 0 = no such key, else the object's version
  hbFile,     \* heartbeats/{instanceId}.json: instanceId -> lastHeartbeat
  running,    \* running[w]: the EC2 instance is in state "running"
  pc,         \* position of w's startup script / assign-addresses.js run
  attempt,    \* reserveAddresses: loop variable attempt
  local,      \* reserveAddresses: the modified in-memory registry, its etag, instanceAddresses
  result,     \* addresses printed on stdout by the last run of main()
  cache,      \* /var/lib/night-cloud/addresses.json of w
  source,     \* history: where the last run of main() got `result` from:
              \* "cache", "existing" (already assigned) or "reserved" (new range)
  rpc,        \* position of w's cleanup-registry.js run ("failed": it exited with 1)
  rscan,      \* cleanupRegistry: `now` and `heartbeats` captured before the retry loop
  rlocal,     \* cleanupRegistry: the modified in-memory registry and its etag
  rattempt    \* cleanupRegistry: loop variable attempt

regVars == <<now, registry, etag, hbFile, running, pc, attempt, local, result, cache,
             source, rpc, rscan, rlocal, rattempt>>

VARIABLES
  solFile,    \* solutions/{address}.json: [exists, solutions (sequence of records)]
  stats,      \* content of solutions-stats.json
  statsEtag,  \* ETag of solutions-stats.json: 0 = no such key
  statsBase,  \* history: totalSolutions of the stats object the run started with
  tpc,        \* position of recorder r inside recordSolution / recordError
  targ,       \* arguments of r's current call: address, challengeId, nonce, isDonation
  tfile,      \* recordSolution: the in-memory addressSolutions.solutions
  tstats,     \* updateStats / updateStatsWithError: the modified stats and the etag read
  tattempt,   \* updateStats / updateStatsWithError: loop variable attempt
  calls,      \* history: number of recordSolution / recordError calls r has made
  recorded,   \* history: number of updateStats calls that returned normally
  recordedErrors \* history: number of updateStatsWithError calls that returned normally

ledgerVars == <<solFile, stats, statsEtag, statsBase, tpc, targ, tfile, tstats, tattempt,
                calls, recorded, recordedErrors>>

VARIABLES
  clock,      \* the orchestrator's local clock (new Date())
  queue,      \* WorkQueue.queue: sequence of work item ids
  inProgress, \* WorkQueue.inProgress: set of work item ids
  wpc,        \* position of worker loop m: "exited", "mining", "aborted", "submitting"
  witem,      \* workItem of worker loop m (0: none)
  solved,     \* SolutionTracker.solutionCache: work items known to be solved
  postedAt,   \* history: clock value at which m's POST in flight was sent
  wlast,      \* history: what the worker loop did with its previous work item
  lastChallengeFetch, \* MiningOrchestrator.lastChallengeFetch (clock value)
  live        \* miner subprocesses spawned for worker slot m that have not closed yet

orchVars == <<clock, queue, inProgress, wpc, witem, solved, postedAt, wlast,
              lastChallengeFetch, live>>

VARIABLES
  solutionCache, \* SolutionTracker.solutionCache of process r: address -> set of challengeIds
  cacheLoaded,   \* SolutionTracker.cacheLoaded of process r
  called,        \* history: the regular pairs recordSolution has been called for
  wq             \* WorkQueue of process r: the queue built last and the arguments of build

trackerVars == <<solutionCache, cacheLoaded, called, wq>>

VARIABLES
  cpc,        \* position of controller c inside its deploy run
  cargs,      \* deploy: the address list and addressesPerInstance handed to initializeRegistry
  cread,      \* initializeRegistry: the registry to write and the etag read
  cattempt,   \* initializeRegistry: loop variable attempt
  deploys     \* history: number of deploy runs controller c has started

seedVars == <<cpc, cargs, cread, cattempt, deploys>>

VARIABLES
  chFile,     \* challenges.json: whether it exists and its `challenges` array
  chMem,      \* ChallengeQueueManager.challenges of process q
  chpc        \* position of process q inside initialize / addChallenge

challengeVars == <<chFile, chMem, chpc>>

VARIABLES
  sub         \* history: how the POST answered whose recordSolution / recordError call
              \* process r made last: kind "none", "receipt", "duplicate" or "other",
              \* and the message of the Error thrown

submitVars == <<sub>>

VARIABLES
  rlist       \* instance-state cleanup of w: runningInstances, listed once by main

stateVars == <<rlist>>

vars == <<regVars, ledgerVars, orchVars, trackerVars, seedVars, challengeVars, submitVars,
          stateVars>>

\* no submission has been answered
NoSubmission ==
  [kind |-> "none", address |-> 0, challengeId |-> 0, isDonation |-> FALSE,
   message |-> <<>>]


\* ------------------------------------------------------------ registry.json
SeededRegistry(n, k) ==
  [addresses |-> AddressList(n), addressesPerInstance |-> k,
   nextAvailable |-> 0, assignments |-> <<>>]

NoLocal == [registry |-> SeededRegistry(0, 0), etag |-> 0, instanceAddresses |-> <<>>]
NoScan == [now |-> 0, heartbeats |-> <<>>]
NoCache == [present |-> FALSE, addresses |-> <<>>, instanceId |-> 0]

\* cleanupStaleAssignments: the staleness test of one assignment
StaleAssignment(assignment, t) ==
  IF "lastHeartbeat" \notin DOMAIN assignment
    THEN t - assignment.assignedAt > AllocStaleThreshold
    ELSE t - assignment.lastHeartbeat > AllocStaleThreshold

\* cleanupStaleAssignments: the registry with every stale assignment deleted
CleanupStaleAssignments(reg, t) ==
  [reg EXCEPT !.assignments =
     Restrict(@, {i \in DOMAIN @ : ~StaleAssignment(@[i], t)})]

PerInstance(reg) ==
  IF reg.addressesPerInstance # 0 THEN reg.addressesPerInstance
  ELSE DEFAULT_ADDRESSES_PER_INSTANCE

\* faulty variant (checks C3): the "Not enough addresses" test is missing
CannotReserveEmptyOnly(reg) == Len(reg.addresses) = 0

\* reserveAddresses: "No addresses available" / "Not enough addresses" (both throw)
CannotReserve(reg) ==
  \/ Len(reg.addresses) = 0
  \/ reg.nextAvailable + PerInstance(reg) - 1 >= Len(reg.addresses)

\* Array.prototype.slice(startAddress, endExclusive): zero-based, end exclusive, both
\* clipped to the length of the array
Slice(addresses, startAddress, endExclusive) ==
  LET last == IF endExclusive < Len(addresses) THEN endExclusive ELSE Len(addresses)
  IN IF startAddress >= last THEN <<>> ELSE SubSeq(addresses, startAddress + 1, last)

\* reserveAddresses: the new assignment record
NewAssignment(reg, t) ==
  LET startAddress == reg.nextAvailable
      endAddress == startAddress + PerInstance(reg) - 1
  IN [startAddress |-> startAddress, endAddress |-> endAddress,
      addresses |-> Slice(reg.addresses, startAddress, endAddress + 1),
      assignedAt |-> t, lastHeartbeat |-> t]

\* faulty variant (checks C1): the range is reserved but nextAvailable is not advanced
ReserveRangeNoAdvance(reg, w, t) ==
  LET a == NewAssignment(reg, t)
  IN [reg EXCEPT !.assignments = [i \in DOMAIN @ \cup {w} |-> IF i = w THEN a ELSE @[i]]]

\* reserveAddresses: the registry after "Reserve new range"
ReserveRange(reg, w, t) ==
  LET a == NewAssignment(reg, t)
  IN [reg EXCEPT !.assignments = [i \in DOMAIN @ \cup {w} |-> IF i = w THEN a ELSE @[i]],
                 !.nextAvailable = a.endAddress + 1]

\* faulty variant (checks C2): the write is unconditional
IfMatchIgnored(tag) == TRUE

\* S3 PutObject with IfMatch: the precondition
IfMatch(tag) == tag = etag

\* ----------------------------------------------------- clock and heartbeat
\* heartbeat.ts main: the instance id is taken from the cache file when there is one
HeartbeatId(w) == IF cache[w].present THEN cache[w].instanceId ELSE w

\* heartbeat.ts updateHeartbeat: one unconditional PUT of heartbeats/{instanceId}.json
UpdateHeartbeat(files, w, t) ==
  [i \in DOMAIN files \cup {HeartbeatId(w)} |-> IF i = HeartbeatId(w) THEN t ELSE files[i]]

RECURSIVE HeartbeatTimers(_, _, _)
\* the heartbeat timer (OnBootSec=1min, OnUnitActiveSec=1min) of every instance of S fires
HeartbeatTimers(files, S, t) ==
  IF S = {} THEN files
  ELSE LET w == CHOOSE x \in S : TRUE
       IN HeartbeatTimers(UpdateHeartbeat(files, w, t), S \ {w}, t)

\* d seconds pass; the running instances write their heartbeats on time
Pass(d) ==
  /\ now' = now + d
  /\ hbFile' = HeartbeatTimers(hbFile, {w \in Instances : running[w]}, now + d)
  /\ UNCHANGED <<registry, etag, running, pc, attempt, local, result, cache, source,
                 rpc, rscan, rlocal, rattempt>>
  /\ UNCHANGED <<ledgerVars, orchVars, trackerVars, seedVars, challengeVars, submitVars, stateVars>>

\* one heartbeat period passes
Tick ==
  /\ now + HeartbeatPeriod <= MaxTicks * HeartbeatPeriod
  /\ Pass(HeartbeatPeriod)

\* longer than the reclaimer's stale threshold
LongPeriod == STALE_THRESHOLD + HeartbeatPeriod

\* a quiet period passes: no allocator or reclaimer run is in flight, only the
\* heartbeat timers fire
LongWait ==
  /\ now < MaxLongWaits * LongPeriod
  /\ \A w \in Instances : pc[w] \notin {"read", "put"} /\ rpc[w] \in {"idle", "failed"}
  /\ Pass(LongPeriod)

\* ---------------------------------------------------------------- allocator
\* faulty variant (checks C8): the cache file is never found
LoadCachedAddressesMiss(w) == <<>>

\* loadCachedAddresses: the cached list, or <<>> for null
LoadCachedAddresses(w) == IF cache[w].present THEN cache[w].addresses ELSE <<>>

\* main of assign-addresses.ts up to the call of reserveAddresses
Main(w) ==
  /\ attempt' = [attempt EXCEPT ![w] = 0]
  /\ IF LoadCachedAddresses(w) # <<>>
       THEN /\ result' = [result EXCEPT ![w] = LoadCachedAddresses(w)]
            /\ source' = [source EXCEPT ![w] = "cache"]
            /\ pc' = [pc EXCEPT ![w] = "done"]
       ELSE /\ result' = [result EXCEPT ![w] = <<>>]
            /\ source' = [source EXCEPT ![w] = "none"]
            /\ pc' = [pc EXCEPT ![w] = "read"]

\* the instance boots: user data arms the heartbeat timer and runs night-cloud-start.sh,
\* which runs assign-addresses.js
Boot(w) ==
  /\ ~running[w]
  /\ running' = [running EXCEPT ![w] = TRUE]
  /\ Main(w)
  /\ UNCHANGED <<now, registry, etag, hbFile, local, cache, rpc, rscan, rlocal, rattempt>>
  /\ UNCHANGED <<ledgerVars, orchVars, trackerVars, seedVars, challengeVars, submitVars, stateVars>>

\* night-cloud-start.sh: the allocator exited non-zero; sleep 30 and run it again
StartupRetry(w) ==
  /\ running[w] /\ pc[w] = "failed"
  /\ Main(w)
  /\ UNCHANGED <<now, registry, etag, hbFile, running, local, cache, rpc, rscan, rlocal,
                 rattempt>>
  /\ UNCHANGED <<ledgerVars, orchVars, trackerVars, seedVars, challengeVars, submitVars, stateVars>>

\* the instance stops or crashes: every process on it ends, its disk is kept
Stop(w) ==
  /\ running[w]
  /\ running' = [running EXCEPT ![w] = FALSE]
  /\ pc' = [pc EXCEPT ![w] = "off"]
  /\ attempt' = [attempt EXCEPT ![w] = 0]
  /\ local' = [local EXCEPT ![w] = NoLocal]
  /\ result' = [result EXCEPT ![w] = <<>>]
  /\ source' = [source EXCEPT ![w] = "none"]
  /\ rpc' = [rpc EXCEPT ![w] = "idle"]
  /\ rscan' = [rscan EXCEPT ![w] = NoScan]
  /\ rlocal' = [rlocal EXCEPT ![w] = NoLocal]
  /\ rattempt' = [rattempt EXCEPT ![w] = 0]
  /\ UNCHANGED <<now, registry, etag, hbFile, cache>>
  /\ UNCHANGED <<ledgerVars, orchVars, trackerVars, seedVars, challengeVars, submitVars, stateVars>>

\* the outer catch of reserveAddresses: retry after 2 s, rethrow on the last attempt
ThrowInLoop(w) ==
  IF attempt[w] < MAX_RETRIES - 1
    THEN /\ attempt' = [attempt EXCEPT ![w] = @ + 1]
         /\ pc' = [pc EXCEPT ![w] = "read"]
    ELSE /\ attempt' = [attempt EXCEPT ![w] = 0]
         /\ pc' = [pc EXCEPT ![w] = "failed"]

\* `continue` in reserveAddresses: next attempt, or process.exit(1) after the loop
ContinueLoop(w) ==
  IF attempt[w] + 1 < MAX_RETRIES
    THEN /\ attempt' = [attempt EXCEPT ![w] = @ + 1]
         /\ pc' = [pc EXCEPT ![w] = "read"]
    ELSE /\ attempt' = [attempt EXCEPT ![w] = 0]
         /\ pc' = [pc EXCEPT ![w] = "failed"]

\* saveCachedAddresses (a failed write is caught and only logged), then stdout:
\* reserveAddresses has returned `addresses`
ReturnAndSave(w, addresses, from) ==
  /\ result' = [result EXCEPT ![w] = addresses]
  /\ source' = [source EXCEPT ![w] = from]
  /\ pc' = [pc EXCEPT ![w] = "done"]
  /\ attempt' = [attempt EXCEPT ![w] = 0]
  /\ \E written \in BOOLEAN :
       cache' = IF written
                  THEN [cache EXCEPT ![w] = [present |-> TRUE, addresses |-> addresses,
                                             instanceId |-> w]]
                  ELSE cache

\* reserveAddresses, one loop iteration up to the conditional PUT:
\* GET registry.json, cleanupStaleAssignments, "already assigned", reserve a new range
ReserveAddressesGet(w) ==
  /\ running[w] /\ pc[w] = "read"
  /\ IF etag = 0
       THEN /\ ContinueLoop(w)
            /\ UNCHANGED <<local, result, cache, source>>
       ELSE LET cleaned == CleanupStaleAssignments(registry, now) IN
            IF w \in DOMAIN cleaned.assignments
              THEN /\ ReturnAndSave(w, cleaned.assignments[w].addresses, "existing")
                   /\ UNCHANGED local
            ELSE IF CannotReserve(cleaned)
              THEN /\ ThrowInLoop(w)
                   /\ UNCHANGED <<local, result, cache, source>>
            ELSE /\ local' = [local EXCEPT ![w] =
                       [registry |-> ReserveRange(cleaned, w, now), etag |-> etag,
                        instanceAddresses |-> NewAssignment(cleaned, now).addresses]]
                 /\ pc' = [pc EXCEPT ![w] = "put"]
                 /\ UNCHANGED <<attempt, result, cache, source>>
  /\ UNCHANGED <<now, registry, etag, hbFile, running, rpc, rscan, rlocal, rattempt>>
  /\ UNCHANGED <<ledgerVars, orchVars, trackerVars, seedVars, challengeVars, submitVars, stateVars>>

\* reserveAddresses: the conditional PUT (IfMatch) and its PreconditionFailed handler
ReserveAddressesPut(w) ==
  /\ running[w] /\ pc[w] = "put"
  /\ local' = [local EXCEPT ![w] = NoLocal]
  /\ IF IfMatch(local[w].etag)
       THEN /\ registry' = local[w].registry
            /\ etag' = etag + 1
            /\ ReturnAndSave(w, local[w].instanceAddresses, "reserved")
       ELSE /\ ContinueLoop(w)
            /\ UNCHANGED <<registry, etag, result, cache, source>>
  /\ UNCHANGED <<now, hbFile, running, rpc, rscan, rlocal, rattempt>>
  /\ UNCHANGED <<ledgerVars, orchVars, trackerVars, seedVars, challengeVars, submitVars, stateVars>>

\* ---------------------------------------------------- challenge ledger
\* the challenges the Mine API issues: challenge c is issued at time c
QueueChallenges == 1..NumQueueChallenges
QueuedChallenge(c) == [challengeId |-> c, availableAt |-> c]

\* one step of Array.prototype.sort by availableAt: insert c behind every entry that is
\* not younger (the sort is stable)
InsertByAvailableAt(list, c) ==
  LET older == {i \in DOMAIN list : list[i].availableAt <= c.availableAt}
      k == Cardinality(older)
  IN IF \A i \in 1..k : i \in older
       THEN SubSeq(list, 1, k) \o <<c>> \o SubSeq(list, k + 1, Len(list))
       ELSE Append(list, c)

RECURSIVE SortByAvailableAt(_)
\* challenges.sort((a, b) => availableAt(a) - availableAt(b))
SortByAvailableAt(list) ==
  IF list = <<>> THEN <<>>
  ELSE InsertByAvailableAt(SortByAvailableAt(SubSeq(list, 1, Len(list) - 1)), list[Len(list)])

\* slice(-maxChallenges): the last maxChallenges entries
KeepLast(list) ==
  IF Len(list) > MaxChallenges
    THEN SubSeq(list, Len(list) - MaxChallenges + 1, Len(list))
    ELSE list

\* challenges.some(c => c.challengeId === id)
Queued(list, id) == \E i \in DOMAIN list : list[i].challengeId = id

\* initialize: GET challenges.json; it is loaded and sorted, or (NoSuchKey, or any other
\* read error) loadFromAPI is called
Initialize(q, getOk) ==
  /\ chpc[q] = "new"
  /\ IF getOk /\ chFile.exists
       THEN /\ chMem' = [chMem EXCEPT ![q] = SortByAvailableAt(chFile.challenges)]
            /\ chpc' = [chpc EXCEPT ![q] = "idle"]
       ELSE /\ chpc' = [chpc EXCEPT ![q] = "api"]
            /\ UNCHANGED chMem
  /\ UNCHANGED chFile
  /\ UNCHANGED <<regVars, ledgerVars, orchVars, trackerVars, seedVars, submitVars, stateVars>>

\* loadFromAPI: the fetched list replaces the in-memory list and is persisted; a failed
\* fetch leaves the list empty
LoadFromAPI(q, fetchOk, fetched) ==
  /\ chpc[q] = "api"
  /\ IF fetchOk
       THEN /\ chMem' = [chMem EXCEPT ![q] = SortByAvailableAt(fetched)]
            /\ chpc' = [chpc EXCEPT ![q] = "persist"]
       ELSE /\ chpc' = [chpc EXCEPT ![q] = "idle"]
            /\ UNCHANGED chMem
  /\ UNCHANGED chFile
  /\ UNCHANGED <<regVars, ledgerVars, orchVars, trackerVars, seedVars, submitVars, stateVars>>

\* addChallenge up to the call of persist
AddChallenge(q, c) ==
  /\ chpc[q] = "idle"
  /\ IF Queued(chMem[q], c)
       THEN UNCHANGED <<chMem, chpc>>
       ELSE /\ chMem' = [chMem EXCEPT ![q] =
                   KeepLast(SortByAvailableAt(Append(@, QueuedChallenge(c))))]
            /\ chpc' = [chpc EXCEPT ![q] = "persist"]
  /\ UNCHANGED chFile
  /\ UNCHANGED <<regVars, ledgerVars, orchVars, trackerVars, seedVars, submitVars, stateVars>>

\* persist: one PUT of challenges.json without a condition; an error is only logged
Persist(q, putOk) ==
  /\ chpc[q] = "persist"
  /\ chFile' = IF putOk THEN [exists |-> TRUE, challenges |-> chMem[q]] ELSE chFile
  /\ chpc' = [chpc EXCEPT ![q] = "idle"]
  /\ UNCHANGED chMem
  /\ UNCHANGED <<regVars, ledgerVars, orchVars, trackerVars, seedVars, submitVars, stateVars>>

\* ------------------------------------------------------- controller: seeding
Controllers == 1..NumControllers

NoDeploy == [addresses |-> <<>>, addressesPerInstance |-> 0]

\* ensureBucket: emptyRegistry, which has neither addresses nor addressesPerInstance
EmptyRegistry ==
  [addresses |-> <<>>, addressesPerInstance |-> 0, nextAvailable |-> 0,
   assignments |-> <<>>]

\* the deploy command starts on controller c with the wallets of the region
Deploy(c, addresses, addressesPerInstance) ==
  /\ cpc[c] = "idle"
  /\ deploys[c] < MaxDeploys
  /\ deploys' = [deploys EXCEPT ![c] = @ + 1]
  /\ cargs' = [cargs EXCEPT ![c] =
                 [addresses |-> addresses, addressesPerInstance |-> addressesPerInstance]]
  /\ cpc' = [cpc EXCEPT ![c] = "ensureGet"]
  /\ UNCHANGED <<cread, cattempt>>
  /\ UNCHANGED <<regVars, ledgerVars, orchVars, trackerVars, challengeVars, submitVars, stateVars>>

\* ensureBucket: the GET of registry.json; only NoSuchKey leads to the PUT
EnsureBucketGet(c) ==
  /\ cpc[c] = "ensureGet"
  /\ cpc' = [cpc EXCEPT ![c] = IF etag = 0 THEN "ensurePut" ELSE "init"]
  /\ UNCHANGED <<cargs, cread, cattempt, deploys>>
  /\ UNCHANGED <<regVars, ledgerVars, orchVars, trackerVars, challengeVars, submitVars, stateVars>>

\* ensureBucket: the PUT of the empty registry, without a precondition
EnsureBucketPut(c) ==
  /\ cpc[c] = "ensurePut"
  /\ registry' = EmptyRegistry
  /\ etag' = etag + 1
  /\ cpc' = [cpc EXCEPT ![c] = "init"]
  /\ UNCHANGED <<cargs, cread, cattempt, deploys>>
  /\ UNCHANGED <<now, hbFile, running, pc, attempt, local, result, cache, source, rpc,
                 rscan, rlocal, rattempt>>
  /\ UNCHANGED <<ledgerVars, orchVars, trackerVars, challengeVars, submitVars, stateVars>>

\* initializeRegistry: the registry to write, made of the arguments and of the
\* assignments and nextAvailable of the registry read (none: tag 0)
SeedOver(args, existing, tag) ==
  [addresses |-> args.addresses,
   addressesPerInstance |-> args.addressesPerInstance,
   nextAvailable |-> IF tag = 0 THEN 0 ELSE existing.nextAvailable,
   assignments |-> IF tag = 0 THEN <<>> ELSE existing.assignments]

\* initializeRegistry, one loop iteration up to the PUT
InitializeRegistryGet(c) ==
  /\ cpc[c] = "init"
  /\ cread' = [cread EXCEPT ![c] =
                 [registry |-> SeedOver(cargs[c], registry, etag), etag |-> etag,
                  instanceAddresses |-> <<>>]]
  /\ cpc' = [cpc EXCEPT ![c] = "initPut"]
  /\ UNCHANGED <<cargs, cattempt, deploys>>
  /\ UNCHANGED <<regVars, ledgerVars, orchVars, trackerVars, challengeVars, submitVars, stateVars>>

\* the deploy run of c ends (initializeRegistry returned or threw)
DeployEnds(c) ==
  /\ cpc' = [cpc EXCEPT ![c] = "idle"]
  /\ cargs' = [cargs EXCEPT ![c] = NoDeploy]
  /\ cattempt' = [cattempt EXCEPT ![c] = 0]

\* initializeRegistry: the PUT, with IfMatch only if an etag was read, and the
\* PreconditionFailed handler
InitializeRegistryPut(c) ==
  /\ cpc[c] = "initPut"
  /\ cread' = [cread EXCEPT ![c] = NoLocal]
  /\ IF cread[c].etag = 0 \/ IfMatch(cread[c].etag)
       THEN /\ registry' = cread[c].registry
            /\ etag' = etag + 1
            /\ DeployEnds(c)
       ELSE /\ UNCHANGED <<registry, etag>>
            /\ IF cattempt[c] < INIT_MAX_RETRIES - 1
                 THEN /\ cattempt' = [cattempt EXCEPT ![c] = @ + 1]
                      /\ cpc' = [cpc EXCEPT ![c] = "init"]
                      /\ UNCHANGED cargs
                 ELSE DeployEnds(c)
  /\ UNCHANGED deploys
  /\ UNCHANGED <<now, hbFile, running, pc, attempt, local, result, cache, source, rpc,
                 rscan, rlocal, rattempt>>
  /\ UNCHANGED <<ledgerVars, orchVars, trackerVars, challengeVars, submitVars, stateVars>>

\* initializeRegistry of the second S3RegistryManager: one PUT without a read
InitializeRegistryBlind(c) ==
  /\ cpc[c] = "init"
  /\ registry' = SeedOver(cargs[c], EmptyRegistry, 0)
  /\ etag' = etag + 1
  /\ DeployEnds(c)
  /\ UNCHANGED <<cread, deploys>>
  /\ UNCHANGED <<now, hbFile, running, pc, attempt, local, result, cache, source, rpc,
                 rscan, rlocal, rattempt>>
  /\ UNCHANGED <<ledgerVars, orchVars, trackerVars, challengeVars, submitVars, stateVars>>

\* ---------------------------------------------------------------- reclaimer
\* faulty variant (checks C11): every running instance takes itself for the leader
IsLeaderAny(w) == running[w]

\* isLeader: the instance id that sorts first among the running instances
IsLeader(w) ==
  LET runningInstances == {i \in Instances : running[i]}
  IN runningInstances # {} /\ w = Min(runningInstances)

\* cleanupRegistry: the staleness test against the scanned heartbeat files
StaleInstance(reg, scan, i) ==
  IF i \notin DOMAIN scan.heartbeats
    THEN scan.now - reg.assignments[i].assignedAt > STALE_THRESHOLD
    ELSE scan.now - scan.heartbeats[i] > STALE_THRESHOLD

StaleInstances(reg, scan) == {i \in DOMAIN reg.assignments : StaleInstance(reg, scan, i)}

\* faulty variant (checks C17): the reclaimer hands the freed ranges out again
RemoveStaleRewind(reg, scan) ==
  [reg EXCEPT !.assignments = Restrict(@, DOMAIN @ \ StaleInstances(reg, scan)),
              !.nextAvailable =
                 Min({@} \cup {reg.assignments[i].startAddress :
                                 i \in StaleInstances(reg, scan)})]

\* cleanupRegistry: the registry with the stale assignments deleted
RemoveStale(reg, scan) ==
  [reg EXCEPT !.assignments = Restrict(@, DOMAIN @ \ StaleInstances(reg, scan))]

\* cleanupRegistry returns, or the process exits
CleanupEnds(w) ==
  /\ rpc' = [rpc EXCEPT ![w] = "idle"]
  /\ rscan' = [rscan EXCEPT ![w] = NoScan]
  /\ rattempt' = [rattempt EXCEPT ![w] = 0]

\* process.exit(1) in the outer catch of cleanupRegistry: the run has failed
CleanupFails(w) ==
  /\ rpc' = [rpc EXCEPT ![w] = "failed"]
  /\ rscan' = [rscan EXCEPT ![w] = NoScan]
  /\ rattempt' = [rattempt EXCEPT ![w] = 0]

\* main of cleanup-registry.ts: leader election, then `now` and scanHeartbeats, which
\* returns the heartbeat files it could read (`readable`): a failed GET of one file, or
\* a failed listing, is caught and logged, and the file is left out of the map
CleanupRegistryScanOf(w, readable) ==
  /\ running[w] /\ rpc[w] \in {"idle", "failed"}
  /\ IsLeader(w)
  /\ rscan' = [rscan EXCEPT ![w] = [now |-> now, heartbeats |-> Restrict(hbFile, readable)]]
  /\ rattempt' = [rattempt EXCEPT ![w] = 0]
  /\ rpc' = [rpc EXCEPT ![w] = "read"]
  /\ UNCHANGED <<now, registry, etag, hbFile, running, pc, attempt, local, result, cache,
                 source, rlocal>>
  /\ UNCHANGED <<ledgerVars, orchVars, trackerVars, seedVars, challengeVars, submitVars, stateVars>>

\* the scan when every S3 read of it succeeds
CleanupRegistryScan(w) == CleanupRegistryScanOf(w, DOMAIN hbFile)

\* cleanupRegistry, one loop iteration up to the conditional PUT
CleanupRegistryGet(w) ==
  /\ running[w] /\ rpc[w] = "read"
  /\ IF etag = 0
       THEN \* GetObject throws NoSuchKey: outer catch, retry or process.exit(1)
            /\ UNCHANGED rlocal
            /\ IF rattempt[w] < CLEANUP_MAX_RETRIES - 1
                 THEN /\ rattempt' = [rattempt EXCEPT ![w] = @ + 1]
                      /\ UNCHANGED <<rpc, rscan>>
                 ELSE CleanupFails(w)
       ELSE IF StaleInstances(registry, rscan[w]) = {}
              THEN /\ CleanupEnds(w)
                   /\ UNCHANGED rlocal
              ELSE /\ rlocal' = [rlocal EXCEPT ![w] =
                         [registry |-> RemoveStale(registry, rscan[w]),
                          etag |-> etag, instanceAddresses |-> <<>>]]
                   /\ rpc' = [rpc EXCEPT ![w] = "put"]
                   /\ UNCHANGED <<rscan, rattempt>>
  /\ UNCHANGED <<now, registry, etag, hbFile, running, pc, attempt, local, result, cache,
                 source>>
  /\ UNCHANGED <<ledgerVars, orchVars, trackerVars, seedVars, challengeVars, submitVars, stateVars>>

\* cleanupRegistry: the conditional PUT and its PreconditionFailed handler (`continue`:
\* after the last attempt the loop ends and the function returns)
CleanupRegistryPut(w) ==
  /\ running[w] /\ rpc[w] = "put"
  /\ rlocal' = [rlocal EXCEPT ![w] = NoLocal]
  /\ IF IfMatch(rlocal[w].etag)
       THEN /\ registry' = rlocal[w].registry
            /\ etag' = etag + 1
            /\ CleanupEnds(w)
       ELSE /\ UNCHANGED <<registry, etag>>
            /\ IF rattempt[w] + 1 < CLEANUP_MAX_RETRIES
                 THEN /\ rattempt' = [rattempt EXCEPT ![w] = @ + 1]
                      /\ rpc' = [rpc EXCEPT ![w] = "read"]
                      /\ UNCHANGED rscan
                 ELSE CleanupEnds(w)
  /\ UNCHANGED <<now, hbFile, running, pc, attempt, local, result, cache, source>>
  /\ UNCHANGED <<ledgerVars, orchVars, trackerVars, seedVars, challengeVars, submitVars, stateVars>>

\* --------------------------------------- reclaimer, instance-state variant
\* MAX_RETRIES of the instance-state cleanup script
STATE_MAX_RETRIES == 60

\* getRunningInstancesAndCheckLeader: DescribeInstances with instance-state-name
\* "running"
RunningInstances == {i \in Instances : running[i]}

\* cleanupRegistry: the assignments of instances that are not in runningInstances
StaleAssignments(reg, runningInstances) == DOMAIN reg.assignments \ runningInstances

\* cleanupRegistry returns, or the process exits with 0
StateCleanupEnds(w) ==
  /\ rpc' = [rpc EXCEPT ![w] = "idle"]
  /\ rlist' = [rlist EXCEPT ![w] = {}]
  /\ rattempt' = [rattempt EXCEPT ![w] = 0]

\* process.exit(1) in the outer catch of cleanupRegistry
StateCleanupFails(w) ==
  /\ rpc' = [rpc EXCEPT ![w] = "failed"]
  /\ rlist' = [rlist EXCEPT ![w] = {}]
  /\ rattempt' = [rattempt EXCEPT ![w] = 0]

\* main: the running instances are listed and the leader is elected; the leader goes
\* on to cleanupRegistry with the set listed, any other instance exits with 0
StateCleanupList(w) ==
  /\ running[w] /\ rpc[w] \in {"idle", "failed"}
  /\ w = Min(RunningInstances)
  /\ rlist' = [rlist EXCEPT ![w] = RunningInstances]
  /\ rattempt' = [rattempt EXCEPT ![w] = 0]
  /\ rpc' = [rpc EXCEPT ![w] = "read"]
  /\ UNCHANGED <<now, registry, etag, hbFile, running, pc, attempt, local, result, cache,
                 source, rscan, rlocal>>
  /\ UNCHANGED <<ledgerVars, orchVars, trackerVars, seedVars, challengeVars, submitVars>>

\* cleanupRegistry, one loop iteration up to the conditional PUT: the registry is read
\* again, the set of running instances is the one main handed over
StateCleanupGet(w) ==
  /\ running[w] /\ rpc[w] = "read"
  /\ IF etag = 0
       THEN /\ UNCHANGED rlocal
            /\ IF rattempt[w] < STATE_MAX_RETRIES - 1
                 THEN /\ rattempt' = [rattempt EXCEPT ![w] = @ + 1]
                      /\ UNCHANGED <<rpc, rlist>>
                 ELSE StateCleanupFails(w)
       ELSE IF StaleAssignments(registry, rlist[w]) = {}
              THEN /\ StateCleanupEnds(w)
                   /\ UNCHANGED rlocal
              ELSE /\ rlocal' = [rlocal EXCEPT ![w] =
                         [registry |-> [registry EXCEPT !.assignments =
                            Restrict(@, DOMAIN @ \ StaleAssignments(registry, rlist[w]))],
                          etag |-> etag, instanceAddresses |-> <<>>]]
                   /\ rpc' = [rpc EXCEPT ![w] = "put"]
                   /\ UNCHANGED <<rlist, rattempt>>
  /\ UNCHANGED <<now, registry, etag, hbFile, running, pc, attempt, local, result, cache,
                 source, rscan>>
  /\ UNCHANGED <<ledgerVars, orchVars, trackerVars, seedVars, challengeVars, submitVars>>

\* cleanupRegistry: the conditional PUT; PreconditionFailed: `continue`
StateCleanupPut(w) ==
  /\ running[w] /\ rpc[w] = "put"
  /\ rlocal' = [rlocal EXCEPT ![w] = NoLocal]
  /\ IF IfMatch(rlocal[w].etag)
       THEN /\ registry' = rlocal[w].registry
            /\ etag' = etag + 1
            /\ StateCleanupEnds(w)
       ELSE /\ UNCHANGED <<registry, etag>>
            /\ IF rattempt[w] + 1 < STATE_MAX_RETRIES
                 THEN /\ rattempt' = [rattempt EXCEPT ![w] = @ + 1]
                      /\ rpc' = [rpc EXCEPT ![w] = "read"]
                      /\ UNCHANGED rlist
                 ELSE StateCleanupEnds(w)
  /\ UNCHANGED <<now, hbFile, running, pc, attempt, local, result, cache, source, rscan>>
  /\ UNCHANGED <<ledgerVars, orchVars, trackerVars, seedVars, challengeVars, submitVars>>

\* ------------------------------------------------- solutions ledger and stats
Recorders == 1..NumRecorders
LedgerAddresses == 1..NumLedgerAddresses
Challenges == 1..NumChallenges

NoArg == [address |-> 0, challengeId |-> 0, nonce |-> 0, isDonation |-> FALSE]

\* the entry of recentSolutions / recentErrors made from the arguments of the call
StatsEntry(arg) ==
  [address |-> arg.address, challengeId |-> arg.challengeId, isDonation |-> arg.isDonation]

\* createEmptyStats
CreateEmptyStats ==
  [totalSolutions |-> 0, donationSolutions |-> 0, totalErrors |-> 0,
   recentSolutions |-> <<>>, recentErrors |-> <<>>]

NoStats == [stats |-> CreateEmptyStats, etag |-> 0]

\* a stats object left by n earlier recordings (entries of address 0, newest first)
PriorStats(n) ==
  [totalSolutions |-> n, donationSolutions |-> 0, totalErrors |-> 0,
   recentSolutions |-> [i \in 1..(IF n < RECENT_CAP THEN n ELSE RECENT_CAP) |->
                          [address |-> 0, challengeId |-> n + 1 - i, isDonation |-> FALSE]],
   recentErrors |-> <<>>]

\* Array.prototype.unshift(entry) followed by slice(0, 20)
UnshiftCapped(list, entry) ==
  LET grown == <<entry>> \o list
  IN IF Len(grown) <= RECENT_CAP THEN grown ELSE SubSeq(grown, 1, RECENT_CAP)

\* faulty variant (checks C4): the "already recorded" test never finds the record
ExistsNever(solutions, challengeId) == FALSE

\* recordSolution: addressSolutions.solutions.some(s => s.challengeId === challengeId)
Exists(solutions, challengeId) ==
  \E i \in DOMAIN solutions : solutions[i].challengeId = challengeId

\* PutObject of solutions-stats.json with IfMatch: etag; an undefined etag (0) sends no
\* precondition
StatsIfMatch(tag) == tag = 0 \/ tag = statsEtag

\* recordSolution / recordError returns
TrackerReturns(r) ==
  /\ tpc' = [tpc EXCEPT ![r] = "idle"]
  /\ targ' = [targ EXCEPT ![r] = NoArg]
  /\ tfile' = [tfile EXCEPT ![r] = <<>>]
  /\ tstats' = [tstats EXCEPT ![r] = NoStats]
  /\ tattempt' = [tattempt EXCEPT ![r] = 0]

\* loadAddressSolutions(address).solutions, empty when the key does not exist
SolutionsOf(address) ==
  IF address \in DOMAIN solFile THEN solFile[address].solutions ELSE <<>>

\* hasSolution: the cache answers when it is loaded and holds the address; else the
\* GET of solutions/{address}.json answers (NoSuchKey and any other error: false)
HasSolution(r, address, challengeId, getOk) ==
  IF cacheLoaded[r] /\ address \in DOMAIN solutionCache[r]
    THEN challengeId \in solutionCache[r][address]
    ELSE getOk /\ Exists(SolutionsOf(address), challengeId)

\* faulty variant (checks C35): the cache is not updated after the PUT
CacheAddSkipped(r, address, challengeId) == solutionCache

\* recordSolution, "Update cache if loaded"
CacheAdd(r, address, challengeId) ==
  IF cacheLoaded[r] /\ address \in DOMAIN solutionCache[r]
    THEN [solutionCache EXCEPT ![r][address] = @ \cup {challengeId}]
    ELSE solutionCache

\* faulty variant (checks C36): a donation is recorded like a regular solution
FirstStepAlwaysLoad(isDonation) == "load"

\* recordSolution: "For donation addresses, only update stats"; else the address file
\* is loaded first
FirstStep(isDonation) == IF isDonation THEN "statsGet" ELSE "load"

\* recordSolution is called; a donation only updates the stats
RecordSolutionCalled(r, address, challengeId, nonce, isDonation) ==
  /\ tpc[r] = "idle"
  /\ calls[r] < MaxCalls
  /\ calls' = [calls EXCEPT ![r] = @ + 1]
  /\ targ' = [targ EXCEPT ![r] = [address |-> address, challengeId |-> challengeId,
                                  nonce |-> nonce, isDonation |-> isDonation]]
  /\ tpc' = [tpc EXCEPT ![r] = FirstStep(isDonation)]
  /\ called' = IF isDonation THEN called ELSE called \cup {<<address, challengeId>>}
  /\ UNCHANGED <<solFile, stats, statsEtag, statsBase, tfile, tstats, tattempt, recorded,
                 recordedErrors>>
  /\ UNCHANGED <<solutionCache, cacheLoaded, wq>>
  /\ UNCHANGED <<regVars, orchVars, seedVars, challengeVars, stateVars>>

\* recordSolution called by another caller than submitSolution
RecordSolution(r, address, challengeId, nonce, isDonation) ==
  /\ RecordSolutionCalled(r, address, challengeId, nonce, isDonation)
  /\ UNCHANGED submitVars

\* recordSolution: loadAddressSolutions (NoSuchKey: empty list), the `exists` test and
\* the push of the new record
RecordSolutionLoad(r) ==
  /\ tpc[r] = "load"
  /\ LET solutions == solFile[targ[r].address].solutions IN
       IF Exists(solutions, targ[r].challengeId)
         THEN TrackerReturns(r)
         ELSE /\ tfile' = [tfile EXCEPT ![r] =
                    Append(solutions, [challengeId |-> targ[r].challengeId,
                                       nonce |-> targ[r].nonce,
                                       instanceId |-> r])]
              /\ tpc' = [tpc EXCEPT ![r] = "write"]
              /\ UNCHANGED <<targ, tstats, tattempt>>
  /\ UNCHANGED <<solFile, stats, statsEtag, statsBase, calls, recorded, recordedErrors>>
  /\ UNCHANGED <<regVars, orchVars, trackerVars, seedVars, challengeVars, submitVars, stateVars>>

\* recordSolution: the unconditional PUT of solutions/{address}.json
RecordSolutionPut(r) ==
  /\ tpc[r] = "write"
  /\ solFile' = [solFile EXCEPT ![targ[r].address] =
                   [exists |-> TRUE, solutions |-> tfile[r]]]
  /\ solutionCache' = CacheAdd(r, targ[r].address, targ[r].challengeId)
  /\ tpc' = [tpc EXCEPT ![r] = "statsGet"]
  /\ UNCHANGED <<stats, statsEtag, statsBase, targ, tfile, tstats, tattempt, calls,
                 recorded, recordedErrors>>
  /\ UNCHANGED <<cacheLoaded, called, wq>>
  /\ UNCHANGED <<regVars, orchVars, seedVars, challengeVars, submitVars, stateVars>>

\* updateStats, one loop iteration up to the PUT: GET (NoSuchKey: empty stats, etag
\* undefined), totalSolutions++, unshift, slice
UpdateStatsGet(r) ==
  /\ tpc[r] = "statsGet"
  /\ LET read == IF statsEtag = 0 THEN CreateEmptyStats ELSE stats
         entry == StatsEntry(targ[r])
     IN tstats' = [tstats EXCEPT ![r] =
          [stats |-> [read EXCEPT
                        !.totalSolutions = @ + 1,
                        !.donationSolutions = IF entry.isDonation THEN @ + 1 ELSE @,
                        !.recentSolutions = UnshiftCapped(@, entry)],
           etag |-> statsEtag]]
  /\ tpc' = [tpc EXCEPT ![r] = "statsPut"]
  /\ UNCHANGED <<solFile, stats, statsEtag, statsBase, targ, tfile, tattempt, calls,
                 recorded, recordedErrors>>
  /\ UNCHANGED <<regVars, orchVars, trackerVars, seedVars, challengeVars, submitVars, stateVars>>

\* the catch of updateStats / updateStatsWithError after PreconditionFailed: retry, or
\* rethrow on the last attempt (recordSolution and recordError catch and log it)
StatsConflict(r, again) ==
  IF tattempt[r] < STATS_MAX_RETRIES - 1
    THEN /\ tattempt' = [tattempt EXCEPT ![r] = @ + 1]
         /\ tpc' = [tpc EXCEPT ![r] = again]
         /\ tstats' = [tstats EXCEPT ![r] = NoStats]
         /\ UNCHANGED <<targ, tfile>>
    ELSE TrackerReturns(r)

\* updateStats: the PUT with IfMatch
UpdateStatsPut(r) ==
  /\ tpc[r] = "statsPut"
  /\ IF StatsIfMatch(tstats[r].etag)
       THEN /\ stats' = tstats[r].stats
            /\ statsEtag' = statsEtag + 1
            /\ recorded' = recorded + 1
            /\ TrackerReturns(r)
       ELSE /\ StatsConflict(r, "statsGet")
            /\ UNCHANGED <<stats, statsEtag, recorded>>
  /\ UNCHANGED <<solFile, statsBase, calls, recordedErrors>>
  /\ UNCHANGED <<regVars, orchVars, trackerVars, seedVars, challengeVars, submitVars, stateVars>>

\* recordError is called
RecordErrorCalled(r, address, challengeId) ==
  /\ tpc[r] = "idle"
  /\ calls[r] < MaxCalls
  /\ calls' = [calls EXCEPT ![r] = @ + 1]
  /\ targ' = [targ EXCEPT ![r] = [address |-> address, challengeId |-> challengeId,
                                  nonce |-> 0, isDonation |-> FALSE]]
  /\ tpc' = [tpc EXCEPT ![r] = "errGet"]
  /\ UNCHANGED <<solFile, stats, statsEtag, statsBase, tfile, tstats, tattempt, recorded,
                 recordedErrors>>
  /\ UNCHANGED <<regVars, orchVars, trackerVars, seedVars, challengeVars, stateVars>>

\* recordError called by another caller than submitSolution
RecordError(r, address, challengeId) ==
  /\ RecordErrorCalled(r, address, challengeId)
  /\ UNCHANGED submitVars

\* updateStatsWithError, one loop iteration up to the PUT
UpdateStatsWithErrorGet(r) ==
  /\ tpc[r] = "errGet"
  /\ LET read == IF statsEtag = 0 THEN CreateEmptyStats ELSE stats
     IN tstats' = [tstats EXCEPT ![r] =
          [stats |-> [read EXCEPT !.totalErrors = @ + 1,
                                  !.recentErrors = UnshiftCapped(@, StatsEntry(targ[r]))],
           etag |-> statsEtag]]
  /\ tpc' = [tpc EXCEPT ![r] = "errPut"]
  /\ UNCHANGED <<solFile, stats, statsEtag, statsBase, targ, tfile, tattempt, calls,
                 recorded, recordedErrors>>
  /\ UNCHANGED <<regVars, orchVars, trackerVars, seedVars, challengeVars, submitVars, stateVars>>

\* updateStatsWithError: the PUT with IfMatch
UpdateStatsWithErrorPut(r) ==
  /\ tpc[r] = "errPut"
  /\ IF StatsIfMatch(tstats[r].etag)
       THEN /\ stats' = tstats[r].stats
            /\ statsEtag' = statsEtag + 1
            /\ recordedErrors' = recordedErrors + 1
            /\ TrackerReturns(r)
       ELSE /\ StatsConflict(r, "errGet")
            /\ UNCHANGED <<stats, statsEtag, recordedErrors>>
  /\ UNCHANGED <<solFile, statsBase, calls, recorded>>
  /\ UNCHANGED <<regVars, orchVars, trackerVars, seedVars, challengeVars, submitVars, stateVars>>

\* ------------------------------------------- solution cache and work queue
\* a challenge's difficulty is a string of hex digits, modelled as the sequence of the
\* digits' values: "000007FF" is <<0, 0, 0, 0, 0, 7, 15, 15>>
HexDigits == 0..15

RECURSIVE ParseInt16(_)
\* parseInt(difficulty, 16)
ParseInt16(str) ==
  IF str = <<>> THEN 0
  ELSE 16 * ParseInt16(SubSeq(str, 1, Len(str) - 1)) + str[Len(str)]

RECURSIVE ToString2(_)
\* Number.prototype.toString(2): the binary digits, most significant first
ToString2(n) ==
  IF n < 2 THEN <<n>> ELSE Append(ToString2(n \div 2), n % 2)

\* String.prototype.split(ch).length: one more than the number of occurrences of ch
SplitLength(str, ch) == Cardinality({i \in DOMAIN str : str[i] = ch}) + 1

\* build: "Count set bits (popcount)"
CountBits(difficulty) == SplitLength(ToString2(ParseInt16(difficulty)), 1) - 1

\* faulty variant (checks C12): the comparator orders by the numeric difficulty
CompareNumeric(a, b) == ParseInt16(b.difficulty) - ParseInt16(a.difficulty)

\* build: the comparator of the sort, countBitsB - countBitsA
Compare(a, b) == CountBits(b.difficulty) - CountBits(a.difficulty)

\* one step of a stable sort: x goes behind every element it does not strictly precede
InsertSorted(sorted, x) ==
  LET before == {i \in DOMAIN sorted : Compare(x, sorted[i]) < 0}
      at == IF before = {} THEN Len(sorted) + 1 ELSE Min(before)
  IN SubSeq(sorted, 1, at - 1) \o <<x>> \o SubSeq(sorted, at, Len(sorted))

RECURSIVE SortChallenges(_)
\* [...challenges].sort(comparator); Array.prototype.sort is stable
SortChallenges(challenges) ==
  IF challenges = <<>> THEN <<>>
  ELSE InsertSorted(SortChallenges(SubSeq(challenges, 1, Len(challenges) - 1)),
                    challenges[Len(challenges)])

\* the address handed out by the donation endpoint; it is none of the worker's own
DonationAddress == 0

\* build: the regular work items, challenge by challenge (easiest first), address by
\* address, for the pairs hasSolution does not report as solved; the GET of
\* solutions/{a}.json fails for the addresses in errs
RegularWorkItems(r, addresses, sorted, errs) ==
  LET na == Len(addresses)
      all == [k \in 1..(Len(sorted) * na) |->
                [address |-> addresses[((k - 1) % na) + 1],
                 addressIndex |-> (k - 1) % na,
                 challenge |-> sorted[((k - 1) \div na) + 1],
                 id |-> <<addresses[((k - 1) % na) + 1],
                          sorted[((k - 1) \div na) + 1].challengeId>>,
                 isDonation |-> FALSE]]
  IN SelectSeq(all, LAMBDA item :
       ~HasSolution(r, item.address, item.challenge.challengeId, item.address \notin errs))

\* build: the donation work item number donationCount
DonationWorkItem(donationChallenge, donationCount) ==
  [address |-> DonationAddress, addressIndex |-> -1, challenge |-> donationChallenge,
   id |-> <<"donation", donationCount, donationChallenge.challengeId>>,
   isDonation |-> TRUE]

RECURSIVE InsertDonations(_, _, _, _, _, _)
\* build: the regular items from index i on are pushed one by one; behind item i with
\* (i + donationOffset) % 20 = 0 comes a donation item, when the endpoint returned an
\* address (fetched) and hasSolution does not report the pair as solved
InsertDonations(regular, i, donationOffset, donationChallenge, donationCount, usable) ==
  IF i >= Len(regular) THEN <<>>
  ELSE LET insert == (i + donationOffset) % DONATION_INTERVAL = 0 /\ usable
       IN <<regular[i + 1]>>
          \o (IF insert THEN <<DonationWorkItem(donationChallenge, donationCount)>>
                        ELSE <<>>)
          \o InsertDonations(regular, i + 1, donationOffset, donationChallenge,
                             IF insert THEN donationCount + 1 ELSE donationCount, usable)

\* the work queue before the first build; addresses, challenges (the arguments of the
\* last build) and builds (the number of builds) are history
NoQueue ==
  [queue |-> <<>>, inProgress |-> {}, addresses |-> <<>>, challenges |-> <<>>,
   builds |-> 0]

\* WorkQueue.build(addresses, challenges) of process r: donationOffset is the random
\* offset, fetched tells whether the donation endpoint answers, errs are the addresses
\* whose solutions file cannot be read
WorkQueueBuild(r, addresses, challenges, donationOffset, fetched, errs) ==
  LET sorted == SortChallenges(challenges)
      regular == RegularWorkItems(r, addresses, sorted, errs)
      usable == /\ fetched
                /\ ~HasSolution(r, DonationAddress, sorted[1].challengeId, TRUE)
  IN /\ wq[r].builds < MaxBuilds
     /\ wq' = [wq EXCEPT ![r] =
                 [queue |-> IF sorted # <<>>
                              THEN InsertDonations(regular, 0, donationOffset, sorted[1],
                                                   0, usable)
                              ELSE regular,
                  inProgress |-> {},
                  addresses |-> addresses,
                  challenges |-> challenges,
                  builds |-> wq[r].builds + 1]]
     /\ UNCHANGED <<solutionCache, cacheLoaded, called>>
     /\ UNCHANGED <<regVars, ledgerVars, orchVars, seedVars, challengeVars, submitVars, stateVars>>

\* the challengeIds preloadSolutions puts into the cache for an address: those of its
\* solutions file, or none when the file does not exist or cannot be read
PreloadedIds(address, getOk) ==
  IF getOk THEN {SolutionsOf(address)[i].challengeId : i \in DOMAIN SolutionsOf(address)}
           ELSE {}

\* preloadSolutions(addresses) of process r: the cache is cleared and then holds one
\* entry per address; the GET fails for the addresses in errs
PreloadSolutions(r, addresses, errs) ==
  /\ tpc[r] = "idle"
  /\ ~cacheLoaded[r]
  /\ solutionCache' = [solutionCache EXCEPT ![r] =
       [a \in Range(addresses) |-> PreloadedIds(a, a \notin errs)]]
  /\ cacheLoaded' = [cacheLoaded EXCEPT ![r] = TRUE]
  /\ UNCHANGED <<called, wq>>
  /\ UNCHANGED <<regVars, ledgerVars, orchVars, seedVars, challengeVars, submitVars, stateVars>>

\* ------------------------------------------------------ mining orchestrator
Miners == 1..NumMiners
WorkItems == 1..NumWorkItems

\* challenge.latestSubmission of the work item: item i belongs to the challenge that
\* closes at time i
LatestSubmission(item) == item

\* expiresAt <= now
Expired(item, t) == LatestSubmission(item) <= t

\* faulty variant (checks C5): the test before the submission is missing
ExpiredBeforeSubmissionSkipped(item, t) == FALSE

\* workerLoop: "Check if challenge has expired before submitting"
ExpiredBeforeSubmission(item, t) == LatestSubmission(item) <= t

\* Array.prototype.filter on a sequence of work item ids
RECURSIVE Filter(_, _)
Filter(list, keep) ==
  IF list = <<>> THEN <<>>
  ELSE (IF Head(list) \in keep THEN <<Head(list)>> ELSE <<>>) \o Filter(Tail(list), keep)

\* WorkQueue.build: every pair without a recorded solution, in queue order
Build == Filter([i \in 1..NumWorkItems |-> i], WorkItems \ solved)

\* WorkQueue.cleanExpired
CleanExpired(list, t) == Filter(list, {i \in WorkItems : ~Expired(i, t)})

\* faulty variant (checks C26): getNext does not skip the items in progress
GetNextAny(list, busy, t) ==
  LET free == Filter(list, {i \in WorkItems : ~Expired(i, t)})
  IN IF free = <<>> THEN 0 ELSE Head(free)

\* WorkQueue.getNext: the first item neither in progress nor expired (0: null)
GetNext(list, busy, t) ==
  LET free == Filter(list, {i \in WorkItems : i \notin busy /\ ~Expired(i, t)})
  IN IF free = <<>> THEN 0 ELSE Head(free)

\* WorkQueue.complete: the queue without the item
Complete(list, item) == Filter(list, WorkItems \ {item})

\* faulty variant (checks C32): release leaves the item in progress
ReleaseSkipped(busy, item) == busy

\* WorkQueue.release: the item leaves the in-progress set and stays in the queue
Release(busy, item) == busy \ {item}

\* workerLoop from its top to the first await: getNext, then spawn the miner or return
LoopTop(m, list, busy, last) ==
  LET item == GetNext(list, busy, clock) IN
    /\ queue' = list
    /\ inProgress' = IF item = 0 THEN busy ELSE busy \cup {item}
    /\ witem' = [witem EXCEPT ![m] = item]
    /\ wpc' = [wpc EXCEPT ![m] = IF item = 0 THEN "exited" ELSE "mining"]
    /\ wlast' = [wlast EXCEPT ![m] = last]

RECURSIVE StartLoops(_, _)
\* processWorkQueue: the worker loops start one after the other, each running to its
\* first await; the result maps each worker to its item (0: returned at once)
StartLoops(ms, busy) ==
  IF ms = {} THEN <<>>
  ELSE LET m == Min(ms)
           item == GetNext(queue', busy, clock)
           rest == StartLoops(ms \ {m}, IF item = 0 THEN busy ELSE busy \cup {item})
       IN [x \in DOMAIN rest \cup {m} |-> IF x = m THEN item ELSE rest[x]]

\* lastChallengeFetch = 0 at construction: a time more than an interval before the start
NeverFetched == 0 - ChallengeFetchInterval

\* miningLoop: now - lastChallengeFetch >= challengeFetchInterval
FetchDue == clock - lastChallengeFetch >= ChallengeFetchInterval

\* faulty variant (checks C27): processWorkQueue does not wait for its worker loops
AllLoopsReturnedSkipped == TRUE

\* `await Promise.all(workerPromises)` of the previous iteration has resolved
AllLoopsReturned == \A m \in Miners : wpc[m] = "exited"

\* 1 when the worker loop of m has spawned a miner in this step
Spawned(m) == IF wpc'[m] = "mining" THEN 1 ELSE 0

\* miningLoop, one iteration: the fetch when it is due, build, cleanExpired,
\* processWorkQueue
MiningLoopIteration ==
  /\ AllLoopsReturned
  /\ queue' = CleanExpired(Build, clock)
  /\ LET taken == StartLoops(Miners, {}) IN
       /\ witem' = [m \in Miners |-> taken[m]]
       /\ wpc' = [m \in Miners |-> IF taken[m] = 0 THEN "exited" ELSE "mining"]
       /\ inProgress' = {taken[m] : m \in Miners} \ {0}
  /\ wlast' = [m \in Miners |-> "none"]
  /\ lastChallengeFetch' = IF FetchDue THEN clock ELSE lastChallengeFetch
  /\ live' = [m \in Miners |-> live[m] + Spawned(m)]
  /\ UNCHANGED <<clock, solved, postedAt>>
  /\ UNCHANGED <<regVars, ledgerVars, trackerVars, seedVars, challengeVars, submitVars, stateVars>>

\* the local clock advances
ClockTick ==
  /\ clock < MaxClock
  /\ clock' = clock + 1
  /\ UNCHANGED <<queue, inProgress, wpc, witem, solved, postedAt, wlast,
                 lastChallengeFetch, live>>
  /\ UNCHANGED <<regVars, ledgerVars, trackerVars, seedVars, challengeVars, submitVars, stateVars>>

\* workerChallenges: the workers tracked as mining
WorkerChallenges == {m \in Miners : wpc[m] = "mining"}

\* faulty variant (checks C14): the scanner spares a challenge at its very deadline
ScannerExpiredLate(m) == LatestSubmission(witem[m]) < clock

\* checkAndAbortExpiredWork: expiresAt <= now for the challenge worker m is tracked with
ScannerExpired(m) == LatestSubmission(witem[m]) <= clock

\* checkAndAbortExpiredWork (every 10 s): abort the miners of expired challenges
CheckAndAbortExpiredWork ==
  /\ \E m \in WorkerChallenges : ScannerExpired(m)
  /\ wpc' = [m \in Miners |->
               IF m \in WorkerChallenges /\ ScannerExpired(m)
                 THEN "aborted" ELSE wpc[m]]
  /\ UNCHANGED <<clock, queue, inProgress, witem, solved, postedAt, wlast,
                 lastChallengeFetch, live>>
  /\ UNCHANGED <<regVars, ledgerVars, trackerVars, seedVars, challengeVars, submitVars, stateVars>>

\* the miner process of m closes and workerLoop resumes: an aborted miner resolves
\* without a solution; a solution is dropped when the challenge has expired, else it is
\* POSTed; no solution or an error releases the item
MineEnds(m, outcome) ==
  /\ wpc[m] \in {"mining", "aborted"}
  /\ wpc[m] = "aborted" => outcome = "none"
  /\ IF outcome = "solution"
       THEN IF ExpiredBeforeSubmission(witem[m], clock)
              THEN /\ LoopTop(m, Complete(queue, witem[m]), inProgress \ {witem[m]},
                              "dropped")
                   /\ UNCHANGED postedAt
              ELSE /\ wpc' = [wpc EXCEPT ![m] = "submitting"]
                   /\ postedAt' = [postedAt EXCEPT ![m] = clock]
                   /\ UNCHANGED <<queue, inProgress, witem, wlast>>
       ELSE /\ LoopTop(m, queue, Release(inProgress, witem[m]),
                       IF wpc[m] = "aborted" THEN "aborted" ELSE "released")
            /\ UNCHANGED postedAt
  /\ live' = [live EXCEPT ![m] = @ - 1 + Spawned(m)]
  /\ UNCHANGED <<clock, solved, lastChallengeFetch>>
  /\ UNCHANGED <<regVars, ledgerVars, trackerVars, seedVars, challengeVars, submitVars, stateVars>>

\* submitSolution: the POST returns (receipt, 409 "already exists", or another error),
\* the tracker records the solution or the error, the item is completed
SubmitReturns(m, response) ==
  /\ wpc[m] = "submitting"
  /\ \E stored \in BOOLEAN :
       solved' = IF response \in {"ok", "conflict"} /\ stored
                   THEN solved \cup {witem[m]} ELSE solved
  /\ postedAt' = [postedAt EXCEPT ![m] = 0]
  /\ LoopTop(m, Complete(queue, witem[m]), inProgress \ {witem[m]},
             IF response = "error" THEN "failed" ELSE "submitted")
  /\ live' = [live EXCEPT ![m] = @ + Spawned(m)]
  /\ UNCHANGED <<clock, lastChallengeFetch>>
  /\ UNCHANGED <<regVars, ledgerVars, trackerVars, seedVars, challengeVars, submitVars, stateVars>>

\* ------------------------------------------------------------ specification
InitRegistry ==
  /\ now = 0
  /\ registry = SeededRegistry(NumAddresses, SeedPerInstance)
  /\ etag = 1
  /\ hbFile = <<>>
  /\ running = [w \in Instances |-> FALSE]
  /\ pc = [w \in Instances |-> "off"]
  /\ attempt = [w \in Instances |-> 0]
  /\ local = [w \in Instances |-> NoLocal]
  /\ result = [w \in Instances |-> <<>>]
  /\ cache = [w \in Instances |-> NoCache]
  /\ source = [w \in Instances |-> "none"]
  /\ rpc = [w \in Instances |-> "idle"]
  /\ rscan = [w \in Instances |-> NoScan]
  /\ rlocal = [w \in Instances |-> NoLocal]
  /\ rattempt = [w \in Instances |-> 0]

\* no recordSolution / recordError call is in progress
RecordersAtRest ==
  /\ tpc = [r \in Recorders |-> "idle"]
  /\ targ = [r \in Recorders |-> NoArg]
  /\ tfile = [r \in Recorders |-> <<>>]
  /\ tstats = [r \in Recorders |-> NoStats]
  /\ tattempt = [r \in Recorders |-> 0]
  /\ calls = [r \in Recorders |-> 0]
  /\ recorded = 0
  /\ recordedErrors = 0

\* no recorder is active; solutions-stats.json and the solutions files do not exist
LedgerAtRest ==
  /\ solFile = [a \in LedgerAddresses |-> [exists |-> FALSE, solutions |-> <<>>]]
  /\ RecordersAtRest

\* solutions-stats.json does not exist yet
NoStatsObject ==
  /\ stats = CreateEmptyStats
  /\ statsEtag = 0
  /\ statsBase = 0

\* solutions-stats.json exists and holds n earlier recordings
StatsObject(n) ==
  /\ stats = PriorStats(n)
  /\ statsEtag = 1
  /\ statsBase = n

\* no deploy is running
ControllersAtRest ==
  /\ cpc = [c \in Controllers |-> "idle"]
  /\ cargs = [c \in Controllers |-> NoDeploy]
  /\ cread = [c \in Controllers |-> NoLocal]
  /\ cattempt = [c \in Controllers |-> 0]
  /\ deploys = [c \in Controllers |-> 0]

\* challenges.json does not exist; no ChallengeQueueManager is initialized
ChallengeQueuesNew ==
  /\ chFile = [exists |-> FALSE, challenges |-> <<>>]
  /\ chMem = [q \in Recorders |-> <<>>]
  /\ chpc = [q \in Recorders |-> "new"]

\* no tracker has preloaded its cache, no work queue has been built
TrackerAtRest ==
  /\ solutionCache = [r \in Recorders |-> <<>>]
  /\ cacheLoaded = [r \in Recorders |-> FALSE]
  /\ called = {}
  /\ wq = [r \in Recorders |-> NoQueue]
  /\ sub = [r \in Recorders |-> NoSubmission]

\* no instance-state cleanup is running
StateCleanupAtRest == rlist = [w \in Instances |-> {}]

\* the orchestrator has not started its mining loop
OrchAtRest ==
  /\ clock = 0
  /\ queue = <<>>
  /\ inProgress = {}
  /\ wpc = [m \in Miners |-> "exited"]
  /\ witem = [m \in Miners |-> 0]
  /\ solved = {}
  /\ postedAt = [m \in Miners |-> 0]
  /\ wlast = [m \in Miners |-> "none"]
  /\ lastChallengeFetch = NeverFetched
  /\ live = [m \in Miners |-> 0]
  /\ TrackerAtRest
  /\ ControllersAtRest
  /\ ChallengeQueuesNew
  /\ StateCleanupAtRest

Init == InitRegistry /\ LedgerAtRest /\ NoStatsObject /\ OrchAtRest

Next ==
  \/ Tick
  \/ LongWait
  \/ \E w \in Instances : Boot(w)
  \/ \E w \in Instances : Stop(w)
  \/ \E w \in Instances : StartupRetry(w)
  \/ \E w \in Instances : ReserveAddressesGet(w)
  \/ \E w \in Instances : ReserveAddressesPut(w)
  \/ \E w \in Instances : CleanupRegistryScan(w)
  \/ \E w \in Instances : CleanupRegistryGet(w)
  \/ \E w \in Instances : CleanupRegistryPut(w)

Spec == Init /\ [][Next]_vars

\* ------------------------------------------------------- registry properties
Assigned == DOMAIN registry.assignments

\* the index interval [startAddress, endAddress] of an assignment
Interval(assignment) == assignment.startAddress .. assignment.endAddress

\* C1 (Disjointness): in every reachable registry state, any two distinct entries of
\* `assignments` have disjoint index intervals [startAddress, endAddress].
C1_Disjointness ==
  \A a, b \in Assigned :
    a # b => Interval(registry.assignments[a]) \cap Interval(registry.assignments[b]) = {}

\* C1 witness: two workers hold ranges at once, one of them reserved after an earlier
\* assignment had been reclaimed (three ranges have been handed out).
C1_Witness ==
  /\ Cardinality(Assigned) = 2
  /\ registry.nextAvailable = 3 * SeedPerInstance
  /\ \A a \in Assigned : Interval(registry.assignments[a]) # {}

\* C3 (Conservation): every live assignment satisfies
\* 0 <= startAddress <= endAddress < len(addresses), and nextAvailable >= endAddress + 1.
C3_Conservation ==
  \A a \in Assigned :
    LET assignment == registry.assignments[a] IN
      /\ 0 <= assignment.startAddress
      /\ assignment.startAddress <= assignment.endAddress
      /\ assignment.endAddress < Len(registry.addresses)
      /\ registry.nextAvailable >= assignment.endAddress + 1

\* C3 witness: the reclaimer has removed an assignment and the last range of the list is
\* live: its endAddress is len(addresses) - 1 and nextAvailable = len(addresses).
C3_Witness ==
  /\ \E w \in Instances : rpc[w] = "idle" /\ w \notin Assigned /\ cache[w].present
  /\ \E a \in Assigned : registry.assignments[a].endAddress = Len(registry.addresses) - 1
  /\ registry.nextAvailable = Len(registry.addresses)
  /\ now >= LongPeriod

\* C6 (Allocator idempotence): whenever reserveAddresses(w) reads a registry in which
\* assignments[w] exists, it returns exactly that assignment's addresses and creates no
\* new assignment for w.
C6_AllocatorIdempotence ==
  [][\A w \in Instances :
       (ReserveAddressesGet(w) /\ etag # 0 /\ w \in Assigned)
         => /\ pc'[w] = "done"
            /\ result'[w] = registry.assignments[w].addresses
            /\ registry' = registry]_vars

\* C7 (Heartbeat lease): the assignment of a worker that writes heartbeats/{w}.json at
\* least once a minute is never removed from the registry.  A worker that reserved its
\* range in its current uptime has written its heartbeat at every period since.
C7_HeartbeatLease ==
  [][\A w \in Instances :
       (running[w] /\ running'[w] /\ source[w] = "reserved" /\ w \in Assigned)
         => w \in DOMAIN registry'.assignments]_vars

\* C8 (Cache-first allocator): when the cache file is present (written by this worker),
\* main() returns the cached addresses at once: the run ends without a read and without
\* a write of registry.json.
C8_CacheFirst ==
  [][\A w \in Instances :
       ((Boot(w) \/ StartupRetry(w)) /\ cache[w].present /\ cache[w].instanceId = w)
         => /\ result'[w] = cache[w].addresses
            /\ pc'[w] = "done"
            /\ local'[w] = NoLocal
            /\ registry' = registry /\ etag' = etag]_vars

\* C8 witness: a worker restarted with its cache file and got its addresses from it,
\* although the registry no longer holds its assignment.
C8_Witness ==
  \E w \in Instances :
    /\ pc[w] = "done" /\ source[w] = "cache"
    /\ cache[w].present /\ result[w] = cache[w].addresses
    /\ w \notin Assigned

\* ------------------------------------------------------------- scenario S1
S1Workers == {1, 2}

\* 20 addresses, K = 5, nextAvailable = 0, no assignments
S1Registry == SeededRegistry(20, 5)

InitS1 ==
  /\ LedgerAtRest /\ NoStatsObject /\ OrchAtRest
  /\ now = 0
  /\ registry = S1Registry
  /\ etag = 1
  /\ hbFile = <<>>
  /\ running = [w \in Instances |-> FALSE]
  /\ pc = [w \in Instances |-> "off"]
  /\ attempt = [w \in Instances |-> 0]
  /\ local = [w \in Instances |-> NoLocal]
  /\ result = [w \in Instances |-> <<>>]
  /\ cache = [w \in Instances |-> NoCache]
  /\ source = [w \in Instances |-> "none"]
  /\ rpc = [w \in Instances |-> "idle"]
  /\ rscan = [w \in Instances |-> NoScan]
  /\ rlocal = [w \in Instances |-> NoLocal]
  /\ rattempt = [w \in Instances |-> 0]

\* the two workers run concurrently: the clock stays within one heartbeat period
TickS1 ==
  /\ now + HeartbeatPeriod <= AllocStaleThreshold
  /\ Pass(HeartbeatPeriod)

NextS1 ==
  \/ TickS1
  \/ \E w \in S1Workers : Boot(w)
  \/ \E w \in S1Workers : ReserveAddressesGet(w)
  \/ \E w \in S1Workers : ReserveAddressesPut(w)

SpecS1 == InitS1 /\ [][NextS1]_vars

S1Done == \A w \in S1Workers : pc[w] = "done"

\* the assignment of the index range [first, last] of the seeded list
S1Holds(w, first, last) ==
  /\ registry.assignments[w].startAddress = first
  /\ registry.assignments[w].endAddress = last
  /\ registry.assignments[w].addresses = SubSeq(S1Registry.addresses, first + 1, last + 1)
  /\ result[w] = SubSeq(S1Registry.addresses, first + 1, last + 1)

\* C2 (S1 race): two workers that run reserveAddresses concurrently on the seeded
\* registry both succeed; the final registry has assignments {W1:[0,4], W2:[5,9]} or the
\* symmetric one, nextAvailable = 10, and each worker is returned the 5 addresses of its
\* own range.
C2_S1Race ==
  /\ \A w \in S1Workers : pc[w] # "failed"
  /\ S1Done =>
       /\ Assigned = S1Workers
       /\ registry.nextAvailable = 10
       /\ \E first, second \in S1Workers :
            /\ first # second
            /\ S1Holds(first, 0, 4)
            /\ S1Holds(second, 5, 9)

\* C2 witness: both workers are done and the conditional write of one of them failed
\* once (three versions of registry.json exist, worker 1 holds the second range).
C2_Witness ==
  /\ S1Done
  /\ etag = 3
  /\ registry.assignments[1].startAddress = 5
  /\ Len(result[1]) = 5 /\ Len(result[2]) = 5

\* ------------------------------------------------- ledger and stats: checks
\* the bucket is new, or solutions-stats.json holds one recording less than the cap
InitLedger ==
  /\ InitRegistry
  /\ OrchAtRest
  /\ LedgerAtRest
  /\ NoStatsObject \/ StatsObject(RECENT_CAP - 1)

NextLedger ==
  \/ \E r \in Recorders, a \in LedgerAddresses, c \in Challenges, d \in BOOLEAN :
       RecordSolution(r, a, c, 1, d)
  \/ \E r \in Recorders : RecordSolutionLoad(r)
  \/ \E r \in Recorders : RecordSolutionPut(r)
  \/ \E r \in Recorders : UpdateStatsGet(r)
  \/ \E r \in Recorders : UpdateStatsPut(r)
  \/ \E r \in Recorders, a \in LedgerAddresses, c \in Challenges : RecordError(r, a, c)
  \/ \E r \in Recorders : UpdateStatsWithErrorGet(r)
  \/ \E r \in Recorders : UpdateStatsWithErrorPut(r)

SpecLedger == InitLedger /\ [][NextLedger]_vars

\* C4 (At-most-once per (address, challenge)): every solutions/{address}.json contains
\* at most one record per challengeId.
C4_AtMostOnce ==
  \A a \in LedgerAddresses :
    \A i, j \in DOMAIN solFile[a].solutions :
      solFile[a].solutions[i].challengeId = solFile[a].solutions[j].challengeId => i = j

\* C4 witness: one recorder has made two calls for the same pair; the second found the
\* record and returned without a write (one stats update, no error, one record).
C4_Witness ==
  \E r \in Recorders, a \in LedgerAddresses :
    /\ \A q \in Recorders : tpc[q] = "idle" /\ calls[q] = (IF q = r THEN 2 ELSE 0)
    /\ recorded = 1 /\ recordedErrors = 0
    /\ Len(solFile[a].solutions) = 1
    /\ stats.donationSolutions = 0

AllRecordersIdle == \A r \in Recorders : tpc[r] = "idle"

CappedLen(n) == IF n < RECENT_CAP THEN n ELSE RECENT_CAP

\* C9 (Stats consistency): after N solution recordings and M error recordings, in any
\* order and from any number of workers, solutions-stats.json has totalSolutions = N
\* (on top of what it held before), totalErrors = M, |recentSolutions| = min(N, 20) and
\* |recentErrors| = min(M, 20).
C9_StatsConsistency ==
  AllRecordersIdle =>
    /\ stats.totalSolutions = statsBase + recorded
    /\ stats.totalErrors = recordedErrors
    /\ Len(stats.recentSolutions) = CappedLen(statsBase + recorded)
    /\ Len(stats.recentErrors) = CappedLen(recordedErrors)

\* ------------------------------------------------------------- scenario S6
S6Recorders == {1, 2}

\* recorder r records a solution of its own address for challenge 1, once
S6RecordSolution(r) ==
  /\ calls[r] = 0
  /\ RecordSolution(r, r, 1, 1, FALSE)

\* solutions-stats.json may or may not exist before
InitS6 ==
  /\ InitRegistry
  /\ OrchAtRest
  /\ LedgerAtRest
  /\ NoStatsObject \/ StatsObject(0) \/ StatsObject(RECENT_CAP)

NextS6 ==
  \/ \E r \in S6Recorders : S6RecordSolution(r)
  \/ \E r \in S6Recorders : RecordSolutionLoad(r)
  \/ \E r \in S6Recorders : RecordSolutionPut(r)
  \/ \E r \in S6Recorders : UpdateStatsGet(r)
  \/ \E r \in S6Recorders : UpdateStatsPut(r)

SpecS6 == InitS6 /\ [][NextS6]_vars

S6Done == \A r \in S6Recorders : calls[r] = 1 /\ tpc[r] = "idle"

\* C10 (S6 stats race): after two concurrent recordSolution calls for different pairs,
\* both per-address files are written, stats.totalSolutions is its previous value + 2
\* (whether or not solutions-stats.json existed before), and each of the two records
\* appears in recentSolutions exactly once.
C10_S6StatsRace ==
  S6Done =>
    /\ \A r \in S6Recorders : solFile[r].exists /\ Exists(solFile[r].solutions, 1)
    /\ stats.totalSolutions = statsBase + 2
    /\ \A r \in S6Recorders :
         Cardinality({i \in DOMAIN stats.recentSolutions :
                        /\ stats.recentSolutions[i].address = r
                        /\ stats.recentSolutions[i].challengeId = 1}) = 1

\* ------------------------------------------------------ orchestrator: checks
InitOrch == InitRegistry /\ LedgerAtRest /\ NoStatsObject /\ OrchAtRest

NextOrch ==
  \/ ClockTick
  \/ MiningLoopIteration
  \/ CheckAndAbortExpiredWork
  \/ \E m \in Miners, outcome \in {"solution", "none", "error"} : MineEnds(m, outcome)
  \/ \E m \in Miners, response \in {"ok", "conflict", "error"} : SubmitReturns(m, response)

SpecOrch == InitOrch /\ [][NextOrch]_vars

\* C5 (Expiry safety): no POST is sent for a work item whose latestSubmission <= the
\* local clock at submission time: every POST in flight was sent before the deadline of
\* its item.
C5_ExpirySafety ==
  \A m \in Miners :
    wpc[m] = "submitting" => LatestSubmission(witem[m]) > postedAt[m]

\* C5 witness: one worker dropped the solution of an expired challenge and took the
\* next item, while the POST of another worker, sent in time, is still in flight after
\* the deadline of its item.
C5_Witness ==
  \E m, n \in Miners :
    /\ wlast[m] = "dropped"
    /\ wpc[n] = "submitting"
    /\ postedAt[n] < LatestSubmission(witem[n])
    /\ Expired(witem[n], clock)

\* ------------------------------------------------------- leader election

\* C11 (Leader uniqueness): for a non-empty set of running workers that run the leader
\* test against the same instance listing, exactly one worker's isLeader returns true,
\* the one whose instance id sorts first.
C11_LeaderUniqueness ==
  RunningInstances # {} =>
    /\ Cardinality({w \in RunningInstances : IsLeader(w)}) = 1
    /\ \A w \in RunningInstances :
         IsLeader(w) <=> (\A v \in RunningInstances : w <= v)

\* C11 witness: two instances are running and the one that sorts first has passed the
\* leader test and is inside cleanupRegistry.
C11_Witness ==
  /\ Cardinality(RunningInstances) = 2
  /\ \E w \in RunningInstances : IsLeader(w) /\ rpc[w] # "idle"
  /\ \E v \in RunningInstances : ~IsLeader(v) /\ rpc[v] = "idle"

\* ------------------------------------------------------- work queue: checks
BuildTrackers == {1}
BuildChallengeIds == 1..NumBuildChallenges

\* "000007FF", "0000000F" and "40000000"
Difficulties ==
  {<<0, 0, 0, 0, 0, 7, 15, 15>>, <<0, 0, 0, 0, 0, 0, 0, 15>>, <<4, 0, 0, 0, 0, 0, 0, 0>>}

\* values of Math.floor(Math.random() * 20): those that put a donation item behind
\* one of the first items, and one that puts none into a short queue
DonationOffsets == {0, 7, 19}

\* the sequences without repetition over the set S
ListsOver(S) ==
  {list \in UNION {[1..n -> S] : n \in 0..Cardinality(S)} :
     \A i, j \in DOMAIN list : list[i] = list[j] => i = j}

\* the challenge lists handed to build: the challenges in any order, each with some
\* difficulty
BuildChallengeLists ==
  UNION {[DOMAIN ids -> [challengeId : BuildChallengeIds, difficulty : Difficulties]]
           \cap {list \in [DOMAIN ids -> [challengeId : BuildChallengeIds,
                                          difficulty : Difficulties]] :
                   \A i \in DOMAIN ids : list[i].challengeId = ids[i]}
         : ids \in ListsOver(BuildChallengeIds)}

RECURSIVE AscendingList(_)
\* the elements of a set of numbers in ascending order
AscendingList(S) ==
  IF S = {} THEN <<>> ELSE <<Min(S)>> \o AscendingList(S \ {Min(S)})

\* solutions/{address}.json after the challenges in ids have been recorded one by one
FileWith(ids) ==
  [exists |-> ids # {},
   solutions |-> [i \in 1..Cardinality(ids) |->
                    [challengeId |-> AscendingList(ids)[i], nonce |-> 1,
                     instanceId |-> 1]]]

\* the ledger holds any records of earlier runs; no cache is loaded, no queue is built
InitBuild ==
  /\ InitRegistry
  /\ OrchAtRest
  /\ NoStatsObject
  /\ RecordersAtRest
  /\ solFile \in [LedgerAddresses -> {FileWith(ids) : ids \in SUBSET BuildChallengeIds}]

NextBuild ==
  \/ \E r \in BuildTrackers, addresses \in ListsOver(LedgerAddresses) :
       \E errs \in SUBSET Range(addresses) : PreloadSolutions(r, addresses, errs)
  \/ \E r \in BuildTrackers, addresses \in ListsOver(LedgerAddresses),
        challenges \in BuildChallengeLists, donationOffset \in DonationOffsets,
        fetched \in BOOLEAN :
       \E errs \in SUBSET Range(addresses) :
         WorkQueueBuild(r, addresses, challenges, donationOffset, fetched, errs)

SpecBuild == InitBuild /\ [][NextBuild]_vars

\* the number of set bits of a hex digit, and of a hex string
DigitBits(d) == (d % 2) + ((d \div 2) % 2) + ((d \div 4) % 2) + ((d \div 8) % 2)

RECURSIVE PopCount(_)
PopCount(difficulty) ==
  IF difficulty = <<>> THEN 0 ELSE DigitBits(Head(difficulty)) + PopCount(Tail(difficulty))

\* the regular (non-donation) items of a queue, in queue order
RegularItems(list) == SelectSeq(list, LAMBDA item : ~item.isDonation)

\* C12 (Difficulty ordering): in the queue produced by WorkQueue.build, the regular
\* (non-donation) work items appear in order of non-increasing popcount of their
\* challenge's hex difficulty, for every list of challenges and addresses.
C12_DifficultyOrdering ==
  \A r \in Recorders :
    LET regular == RegularItems(wq[r].queue) IN
      \A i, j \in DOMAIN regular :
        i < j => PopCount(regular[i].challenge.difficulty)
                   >= PopCount(regular[j].challenge.difficulty)

\* C12 witness: a built queue holds regular items of two challenges and a donation
\* item between them; the challenge with more set bits came second in the argument and
\* has the numerically smaller difficulty, and its items come first in the queue.
C12_Witness ==
  \E r \in Recorders :
    LET q == wq[r].queue IN
      \E i, k, j \in DOMAIN q :
        /\ i < k /\ k < j
        /\ ~q[i].isDonation /\ q[k].isDonation /\ ~q[j].isDonation
        /\ PopCount(q[i].challenge.difficulty) > PopCount(q[j].challenge.difficulty)
        /\ ParseInt16(q[i].challenge.difficulty) < ParseInt16(q[j].challenge.difficulty)
        /\ Len(wq[r].challenges) = 2
        /\ wq[r].challenges[1] = q[j].challenge
        /\ wq[r].challenges[2] = q[i].challenge

\* solutions/{address}.json holds a record of the challenge
RecordedIn(address, challengeId) ==
  \E i \in DOMAIN solFile[address].solutions :
    solFile[address].solutions[i].challengeId = challengeId

\* the pairs (address, challengeId) recorded in the solutions files
Recorded == {pair \in LedgerAddresses \X BuildChallengeIds : RecordedIn(pair[1], pair[2])}

\* C13 (Dedup via ledger): after WorkQueue.build(addresses, challenges), the regular
\* work items are exactly the pairs (a, c) with a in addresses and c in challenges for
\* which the solutions ledger has no record, each pair exactly once; a pair recorded in
\* solutions/{a}.json is never emitted.
C13_DedupViaLedger ==
  [][\A r \in Recorders :
       wq'[r] # wq[r] =>
         LET regular == RegularItems(wq'[r].queue)
             ids == {wq'[r].challenges[i].challengeId : i \in DOMAIN wq'[r].challenges}
         IN /\ \A i, j \in DOMAIN regular : regular[i].id = regular[j].id => i = j
            /\ {regular[i].id : i \in DOMAIN regular}
                 = (Range(wq'[r].addresses) \X ids) \ Recorded']_vars

\* ------------------------------------------------------------- scenario S5
\* the close event of an aborted miner process is delivered and workerLoop resumes
SpecOrchFair ==
  SpecOrch /\ \A m \in Miners : WF_vars(wpc[m] = "aborted" /\ MineEnds(m, "none"))

\* the expiry scanner runs: it aborts at least one miner
ScannerRuns == \E m \in Miners : wpc[m] = "mining" /\ wpc'[m] = "aborted"

\* C14 (S5 expiry abort): if a miner subprocess is running for a work item when the
\* expiry scanner runs at a time >= latestSubmission of its challenge, the scanner
\* aborts that subprocess and removes the worker's tracking entry; the work item is
\* subsequently released from the in-progress set, and no POST is made for it,
\* whatever the subprocess outputs.
C14_S5ExpiryAbort ==
  /\ [][\A m \in Miners :
         /\ (ScannerRuns /\ wpc[m] = "mining" /\ Expired(witem[m], clock))
              => (wpc'[m] = "aborted" /\ m \notin WorkerChallenges')
         /\ (wpc[m] = "aborted" /\ wpc'[m] # "aborted")
              => /\ wpc'[m] # "submitting"
                 /\ witem[m] \notin inProgress'
                 /\ witem[m] \in Range(queue')
                 /\ wlast'[m] = "aborted"]_vars
  /\ \A m \in Miners : (wpc[m] = "aborted") ~> (wlast[m] = "aborted" /\ wpc[m] # "aborted")

\* C14 witness: a worker's miner was aborted and its item released while the other
\* worker's miner, running for an expired item too, has been aborted and has not closed.
C14_Witness ==
  \E m, n \in Miners :
    /\ wlast[m] = "aborted" /\ wpc[m] = "exited"
    /\ wpc[n] = "aborted" /\ Expired(witem[n], clock)
    /\ witem[n] \in inProgress

\* ------------------------------------------------- solution tracker: checks
Nonces == 1..NumNonces

\* recordSolution calls made one after the other, by either process, with any nonce;
\* each process may preload its cache once, at any time between two calls
NextTracker ==
  \/ \E r \in Recorders, a \in LedgerAddresses, c \in Challenges, n \in Nonces,
        d \in BOOLEAN :
       AllRecordersIdle /\ RecordSolution(r, a, c, n, d)
  \/ \E r \in Recorders : RecordSolutionLoad(r)
  \/ \E r \in Recorders : RecordSolutionPut(r)
  \/ \E r \in Recorders : UpdateStatsGet(r)
  \/ \E r \in Recorders : UpdateStatsPut(r)
  \/ \E r \in Recorders, addresses \in ListsOver(LedgerAddresses) :
       \E errs \in SUBSET Range(addresses) :
         AllRecordersIdle /\ PreloadSolutions(r, addresses, errs)

SpecTracker == Init /\ [][NextTracker]_vars

\* the call of r in progress is for a regular address and its pair is in the file
RepeatedCall(r) ==
  /\ tpc[r] # "idle"
  /\ ~targ[r].isDonation
  /\ RecordedIn(targ[r].address, targ[r].challengeId)

\* C15 (recordSolution idempotence): for a regular address, recordSolution(a, c, n)
\* followed by any number of repeated calls for the same (a, c) leaves
\* solutions/{a}.json exactly as after the first call (same single record, original
\* nonce kept): no step of a call that finds the pair recorded changes a solutions file.
C15_RecordIdempotence ==
  [][\A r \in Recorders : RepeatedCall(r) => solFile' = solFile]_vars

\* C15 witness: the third call for one pair, with another nonce than the recorded one,
\* is about to read the file; the two earlier calls have returned, the file holds the
\* single record of the first.
C15_Witness ==
  \E r \in Recorders :
    /\ tpc[r] = "load"
    /\ calls[1] + calls[2] = 3
    /\ called = {<<targ[r].address, targ[r].challengeId>>}
    /\ stats.donationSolutions = 0 /\ recorded = 1
    /\ Len(solFile[targ[r].address].solutions) = 1
    /\ solFile[targ[r].address].solutions[1].nonce # targ[r].nonce

\* recordSolution of process r returns (every return of the model is `return true`)
ReturnsTrue(r) == tpc[r] # "idle" /\ tpc'[r] = "idle"

\* C16 (hasSolution round-trip): hasSolution(a, c) is false before any recordSolution
\* for (a, c) and true after recordSolution(a, c, n) has returned true, both when the
\* in-memory cache was preloaded and when it was not (regular addresses; the read of
\* solutions/{a}.json made by hasSolution itself succeeds).
C16_HasSolutionRoundTrip ==
  /\ [](\A r \in Recorders, a \in LedgerAddresses, c \in Challenges :
          <<a, c>> \notin called => ~HasSolution(r, a, c, TRUE))
  /\ [][\A r \in Recorders, a \in LedgerAddresses, c \in Challenges :
          (ReturnsTrue(r) /\ ~targ[r].isDonation
             /\ targ[r].address = a /\ targ[r].challengeId = c)
            => HasSolution(r, a, c, TRUE)']_vars

\* ------------------------------------------------------------- scenario S2
\* the reclaimer run of w commits its PUT
ReclaimCommits(w) == rpc[w] = "put" /\ rpc'[w] = "idle" /\ etag' # etag

\* the allocator run of w commits its PUT
ReservationCommits(w) == pc[w] = "put" /\ pc'[w] # "put" /\ etag' # etag

\* C17 (S2 reclaimer frame): a committed reclaimer run changes only `assignments`:
\* it deletes entries, and nextAvailable, addresses and addressesPerInstance are
\* unchanged; the next reservation therefore starts at nextAvailable, and a freed
\* range below it is not reused.
C17_ReclaimerFrame ==
  [][/\ \A w \in Instances :
          ReclaimCommits(w) =>
            /\ registry'.nextAvailable = registry.nextAvailable
            /\ registry'.addresses = registry.addresses
            /\ registry'.addressesPerInstance = registry.addressesPerInstance
            /\ DOMAIN registry'.assignments \subseteq DOMAIN registry.assignments
            /\ DOMAIN registry'.assignments # DOMAIN registry.assignments
            /\ \A i \in DOMAIN registry'.assignments :
                 registry'.assignments[i] = registry.assignments[i]
     /\ \A w \in Instances :
          ReservationCommits(w) =>
            /\ registry'.assignments[w].startAddress = registry.nextAvailable
            /\ registry'.nextAvailable > registry'.assignments[w].endAddress]_vars

\* C17 witness: the reclaimer has removed the only assignment, [0, K-1], and left
\* nextAvailable = K; the reservation of a worker, read from that registry and about
\* to be written, takes the range that starts at K.
C17_Witness ==
  \E v \in Instances :
    /\ etag > 1
    /\ registry.assignments = <<>>
    /\ registry.nextAvailable = SeedPerInstance
    /\ pc[v] = "put" /\ local[v].etag = etag
    /\ local[v].registry.assignments[v].startAddress = SeedPerInstance
    /\ local[v].registry.assignments[v].endAddress = 2 * SeedPerInstance - 1

\* ------------------------------------------------------------ seeding: checks
\* the bucket is new: registry.json does not exist, no instance is running
InitSeed ==

  /\ LedgerAtRest /\ NoStatsObject /\ OrchAtRest
  /\ now = 0
  /\ registry = EmptyRegistry
  /\ etag = 0
  /\ hbFile = <<>>
  /\ running = [w \in Instances |-> FALSE]
  /\ pc = [w \in Instances |-> "off"]
  /\ attempt = [w \in Instances |-> 0]
  /\ local = [w \in Instances |-> NoLocal]
  /\ result = [w \in Instances |-> <<>>]
  /\ cache = [w \in Instances |-> NoCache]
  /\ source = [w \in Instances |-> "none"]
  /\ rpc = [w \in Instances |-> "idle"]
  /\ rscan = [w \in Instances |-> NoScan]
  /\ rlocal = [w \in Instances |-> NoLocal]
  /\ rattempt = [w \in Instances |-> 0]

\* the wallet lists a deploy run may seed
SeedLists ==
  {AddressList(SeedPerInstance), AddressList(NumAddresses - SeedPerInstance),
   AddressList(NumAddresses)}

NextSeed ==
  \/ \E c \in Controllers, addresses \in SeedLists : Deploy(c, addresses, SeedPerInstance)
  \/ \E c \in Controllers : EnsureBucketGet(c)
  \/ \E c \in Controllers : EnsureBucketPut(c)
  \/ \E c \in Controllers : InitializeRegistryGet(c)
  \/ \E c \in Controllers : InitializeRegistryPut(c)
  \/ \E c \in Controllers : InitializeRegistryBlind(c)
  \/ \E w \in Instances : Boot(w)
  \/ \E w \in Instances : StartupRetry(w)
  \/ \E w \in Instances : ReserveAddressesGet(w)
  \/ \E w \in Instances : ReserveAddressesPut(w)

SpecSeed == InitSeed /\ [][NextSeed]_vars

\* C18 (No blind write of the registry): every PUT of registry.json by any operation
\* (bucket initialisation, seeding, reservation, reclaim) replaces the version its
\* writer read before (a writer that read NoSuchKey, or did not read, writes only where
\* no registry exists), so that no write overwrites a committed change the writer has
\* not read.
C18_NoBlindWrite ==
  [][etag' # etag =>
       \/ \E w \in Instances : pc[w] = "put" /\ pc'[w] # "put" /\ local[w].etag = etag
       \/ \E w \in Instances : rpc[w] = "put" /\ rpc'[w] # "put" /\ rlocal[w].etag = etag
       \/ \E c \in Controllers : cpc[c] = "ensurePut" /\ cpc'[c] = "init" /\ etag = 0
       \/ \E c \in Controllers :
            cpc[c] = "initPut" /\ cpc'[c] = "idle" /\ cread[c].etag = etag
       \/ \E c \in Controllers : cpc[c] = "init" /\ cpc'[c] = "idle" /\ etag = 0]_vars

\* initializeRegistry of controller c writes over an existing registry
ReseedCommits(c) ==
  cpc[c] \in {"init", "initPut"} /\ cpc'[c] = "idle" /\ etag' # etag /\ etag # 0

\* C19 (Seeding preserves assignments): initializeRegistry on an existing registry
\* replaces only the address list and addressesPerInstance; every existing assignment
\* and nextAvailable are preserved, also when a worker's reservation commits
\* concurrently with the re-seed.
C19_SeedingPreserves ==
  [][\A c \in Controllers :
       ReseedCommits(c) =>
         /\ registry'.assignments = registry.assignments
         /\ registry'.nextAvailable = registry.nextAvailable
         /\ registry'.addresses = cargs[c].addresses
         /\ registry'.addressesPerInstance = cargs[c].addressesPerInstance]_vars

\* ------------------------------------------------- recovery after exhaustion
\* the registry is seeded with a single slice; no instance is running
InitRecovery ==
  /\ LedgerAtRest /\ NoStatsObject /\ OrchAtRest
  /\ now = 0
  /\ registry = SeededRegistry(SeedPerInstance, SeedPerInstance)
  /\ etag = 1
  /\ hbFile = <<>>
  /\ running = [w \in Instances |-> FALSE]
  /\ pc = [w \in Instances |-> "off"]
  /\ attempt = [w \in Instances |-> 0]
  /\ local = [w \in Instances |-> NoLocal]
  /\ result = [w \in Instances |-> <<>>]
  /\ cache = [w \in Instances |-> NoCache]
  /\ source = [w \in Instances |-> "none"]
  /\ rpc = [w \in Instances |-> "idle"]
  /\ rscan = [w \in Instances |-> NoScan]
  /\ rlocal = [w \in Instances |-> NoLocal]
  /\ rattempt = [w \in Instances |-> 0]

NextRecovery ==
  \/ Tick
  \/ LongWait
  \/ \E w \in Instances : Boot(w)
  \/ \E w \in Instances : Stop(w)
  \/ \E w \in Instances : StartupRetry(w)
  \/ \E w \in Instances : ReserveAddressesGet(w)
  \/ \E w \in Instances : ReserveAddressesPut(w)
  \/ \E w \in Instances : CleanupRegistryScan(w)
  \/ \E w \in Instances : CleanupRegistryGet(w)
  \/ \E w \in Instances : CleanupRegistryPut(w)

\* night-cloud-start.sh loops `while true` around assign-addresses.js, and a started
\* allocator run goes on to its return or exit: neither waits forever
StartupKeepsRetrying ==
  \A w \in Instances :
    /\ WF_vars(StartupRetry(w))
    /\ WF_vars(ReserveAddressesGet(w))
    /\ WF_vars(ReserveAddressesPut(w))

SpecRecovery == InitRecovery /\ [][NextRecovery]_vars /\ StartupKeepsRetrying

\* the allocator of w has failed and the registry cannot serve one more slice
Exhausted(w) ==
  running[w] /\ pc[w] = "failed" /\ w \notin Assigned /\ CannotReserve(registry)

\* the addresses of the registry that no assignment covers
Unassigned ==
  (0 .. Len(registry.addresses) - 1) \
    UNION {Interval(registry.assignments[i]) : i \in Assigned}

\* C20 (Recovery after exhaustion): a worker whose reservation failed for want of
\* addresses and whose startup script keeps retrying eventually obtains an address
\* slice once reclaimed assignments have left at least K addresses unassigned, without
\* a restart of the worker.
C20_RecoveryAfterExhaustion ==
  \A w \in Instances :
    (Exhausted(w) /\ Cardinality(Unassigned) >= PerInstance(registry))
      ~> (~running[w] \/ (pc[w] = "done" /\ result[w] # <<>>))

\* ------------------------------------------------- reclaimer: staleness rule
\* the reclaimer runs between two timer periods: the clock advances only while no
\* allocator or reclaimer run is in flight (LongWait); heartbeat reads may fail
NextReclaim ==
  \/ LongWait
  \/ \E w \in Instances : Boot(w)
  \/ \E w \in Instances : Stop(w)
  \/ \E w \in Instances : StartupRetry(w)
  \/ \E w \in Instances : ReserveAddressesGet(w)
  \/ \E w \in Instances : ReserveAddressesPut(w)
  \/ \E w \in Instances, readable \in SUBSET DOMAIN hbFile : CleanupRegistryScanOf(w, readable)
  \/ \E w \in Instances : CleanupRegistryGet(w)
  \/ \E w \in Instances : CleanupRegistryPut(w)

SpecReclaim == Init /\ [][NextReclaim]_vars

\* the staleness rule for assignment i of the stored registry at the time t of a
\* reclaimer run, against the heartbeat objects that exist
StaleByRule(i, t) ==
  IF i \notin DOMAIN hbFile
    THEN t - registry.assignments[i].assignedAt > STALE_THRESHOLD
    ELSE t - hbFile[i] > STALE_THRESHOLD

\* C21 (Reclaimer staleness rule): a committed reclaimer run removes exactly those
\* assignments for which either no heartbeat object exists and now - assignedAt exceeds
\* 30 min, or the heartbeat's lastHeartbeat is older than 30 min; every other assignment
\* of the registry it read is kept unchanged.
C21_ReclaimerStalenessRule ==
  [][\A w \in Instances :
       ReclaimCommits(w) =>
         /\ DOMAIN registry'.assignments =
              {i \in Assigned : ~StaleByRule(i, rscan[w].now)}
         /\ \A i \in DOMAIN registry'.assignments :
              registry'.assignments[i] = registry.assignments[i]]_vars

\* C22 (nextAvailable is monotone): across any sequence of reservations, opportunistic
\* reclaims, reclaimer runs and re-seeds, nextAvailable never decreases, so that an
\* address index that was once part of a worker's assignment is never handed to a
\* different worker.
C22_NextAvailableMonotone ==
  [][registry'.nextAvailable >= registry.nextAvailable]_vars

\* ------------------------------------------- solutions files: concurrent appends
\* the challenges the worker loops of one orchestrator mine for one address
AppendChallenges == 1..NumAppendChallenges

\* the worker loops of one orchestrator (the recorders) submit solutions for regular
\* addresses and record them; the calls interleave at their awaits
NextAppend ==
  \/ \E r \in Recorders, a \in LedgerAddresses, c \in AppendChallenges :
       RecordSolution(r, a, c, 1, FALSE)
  \/ \E r \in Recorders : RecordSolutionLoad(r)
  \/ \E r \in Recorders : RecordSolutionPut(r)
  \/ \E r \in Recorders : UpdateStatsGet(r)
  \/ \E r \in Recorders : UpdateStatsPut(r)

SpecAppend == Init /\ [][NextAppend]_vars

\* C23 (Solutions file is append-only under concurrency): once a record for
\* (address, challengeId) has been written to solutions/{address}.json, every later
\* state of that file still contains it, also when two worker loops record solutions
\* for the same address and different challenges at the same time.
C23_SolutionsAppendOnly ==
  [][\A a \in LedgerAddresses, c \in AppendChallenges :
       RecordedIn(a, c) => RecordedIn(a, c)']_vars

\* ------------------------------------------------- challenge ledger: checks
\* the lists the challenges API may return
FetchedLists == {<<>>} \cup {<<QueuedChallenge(c)>> : c \in QueueChallenges}

\* every orchestrator process initializes its queue once and then adds the challenges
\* its mining loop fetches
NextChallenges ==
  \/ \E q \in Recorders, getOk \in BOOLEAN : Initialize(q, getOk)
  \/ \E q \in Recorders, fetchOk \in BOOLEAN, fetched \in FetchedLists :
       LoadFromAPI(q, fetchOk, fetched)
  \/ \E q \in Recorders, c \in QueueChallenges : AddChallenge(q, c)
  \/ \E q \in Recorders, putOk \in BOOLEAN : Persist(q, putOk)

SpecChallenges == Init /\ [][NextChallenges]_vars

\* challenges.json holds challenge c
Stored(c) == chFile.exists /\ Queued(chFile.challenges, c)

\* C24 (Challenge ledger CAS): challenges.json is updated by compare-and-set: when two
\* workers concurrently add different challenges, the stored ledger ends up containing
\* both; no worker's write removes an unexpired challenge that another worker has stored.
C24_ChallengeLedgerCAS ==
  [][\A c \in QueueChallenges : Stored(c) => Stored(c)']_vars

\* ------------------------------------------------------ mining loop cadence
\* miningLoop sleeps workCheckInterval (5 s) between two iterations: when it is not
\* awaiting processWorkQueue it runs before a clock unit (5 min) passes with a fetch due
ClockTickCadence ==
  /\ (\A m \in Miners : wpc[m] = "exited") => ~FetchDue
  /\ ClockTick

NextCadence ==
  \/ ClockTickCadence
  \/ MiningLoopIteration
  \/ CheckAndAbortExpiredWork
  \/ \E m \in Miners, outcome \in {"solution", "none", "error"} : MineEnds(m, outcome)
  \/ \E m \in Miners, response \in {"ok", "conflict", "error"} : SubmitReturns(m, response)

SpecCadence == InitOrch /\ [][NextCadence]_vars

\* C25 (Tick cadence): while the orchestrator runs, the challenge ledger is refreshed
\* from the Mine API whenever challengeFetchInterval has elapsed since the last fetch,
\* independently of mining progress: the fetch is never a whole interval overdue, also
\* while worker loops have unsolved, unexpired work items.
C25_TickCadence ==
  (\E m \in Miners : wpc[m] = "mining" /\ ~Expired(witem[m], clock))
    => clock - lastChallengeFetch < 2 * ChallengeFetchInterval

\* ------------------------------------------------ worker pool: checks
\* the miner subprocess of worker loop m is running (an aborted one until it closes)
Live(m) == wpc[m] \in {"mining", "aborted"}

\* C26 (In-progress exclusivity): within one orchestrator no two miner subprocesses run
\* for the same work item at any time; an item handed out by getNext stays in the
\* in-progress set, which build() does not clear, while its subprocess is in flight.
C26_InProgressExclusivity ==
  /\ \A m, n \in Miners : (m # n /\ Live(m) /\ Live(n)) => witem[m] # witem[n]
  /\ \A m \in Miners : Live(m) => witem[m] \in inProgress

\* two subprocesses run, one of them for an item its worker loop took after it had
\* released another
C26_Witness ==
  \E m, n \in Miners :
    /\ m # n /\ Live(m) /\ Live(n)
    /\ wlast[m] = "released"
    /\ witem[m] # 0 /\ witem[n] # 0

RECURSIVE SumLive(_)
\* the number of miner subprocesses running, over the worker slots of S
SumLive(S) ==
  IF S = {} THEN 0
  ELSE LET m == CHOOSE x \in S : TRUE IN live[m] + SumLive(S \ {m})

\* C27 (Bounded pool): the number of concurrently running miner subprocesses never
\* exceeds the configured worker count W, and each worker slot (workerId) has at most
\* one live subprocess at any time.
C27_BoundedPool ==
  /\ SumLive(Miners) <= NumMiners
  /\ \A m \in Miners : live[m] <= 1

\* every worker slot runs a subprocess, one of them spawned by a worker loop that had
\* submitted a solution before
C27_Witness ==
  /\ \A m \in Miners : live[m] = 1 /\ Live(m)
  /\ \E m \in Miners : wlast[m] = "submitted"

\* C28 (Re-seed validation): re-seeding an existing registry re-validates that every
\* preserved assignment's range lies within [0, len(new addresses)); when some range does
\* not fit, the seed fails and registry.json is not written: a committed re-seed leaves
\* only assignments whose range fits the new address list.
C28_ReseedValidation ==
  [][\A c \in Controllers :
       ReseedCommits(c) =>
         \A i \in DOMAIN registry'.assignments :
           /\ registry'.assignments[i].startAddress >= 0
           /\ registry'.assignments[i].endAddress < Len(registry'.addresses)]_vars

\* ------------------------------------------------------ registry exhaustion
SpecExhaust == InitRecovery /\ [][NextRecovery]_vars

\* the registry cannot serve one more slice: nextAvailable + K - 1 >= len(addresses)
NoSliceLeft == registry.nextAvailable + PerInstance(registry) - 1 >= Len(registry.addresses)

\* w holds no assignment once the stale ones are left out
HoldsNoAssignment(w) == w \notin DOMAIN CleanupStaleAssignments(registry, now).assignments

\* C29 (Registry exhaustion): when nextAvailable + K - 1 >= len(addresses) and the worker
\* has no assignment, reserveAddresses fails and writes nothing: registry.json, with any
\* stale assignment its opportunistic reclaim found, is left unchanged, and no local
\* cache file is written; the last attempt ends the run with a failure.
C29_RegistryExhaustion ==
  [][\A w \in Instances :
       (ReserveAddressesGet(w) /\ etag # 0 /\ HoldsNoAssignment(w) /\ NoSliceLeft)
         => /\ registry' = registry /\ etag' = etag
            /\ cache' = cache
            /\ result'[w] = <<>>
            /\ pc'[w] \in {"read", "failed"}
            /\ (attempt[w] = MAX_RETRIES - 1 => pc'[w] = "failed")]_vars

\* the allocator of w has failed on an exhausted registry that still holds the stale
\* assignment of a stopped instance
C29_Witness ==
  \E w \in Instances :
    /\ running[w] /\ pc[w] = "failed" /\ HoldsNoAssignment(w) /\ NoSliceLeft
    /\ ~cache[w].present
    /\ \E i \in Assigned : i # w /\ StaleAssignment(registry.assignments[i], now)

\* ------------------------------------------------------- registry contention
\* instance 2 reserved the first slice at time 0 and stopped before its first heartbeat;
\* the reclaimer's stale threshold has passed since
InitContention ==
  /\ LedgerAtRest /\ NoStatsObject /\ OrchAtRest
  /\ now = LongPeriod
  /\ registry = ReserveRange(SeededRegistry(NumAddresses, SeedPerInstance), 2, 0)
  /\ etag = 2
  /\ hbFile = <<>>
  /\ running = [w \in Instances |-> FALSE]
  /\ pc = [w \in Instances |-> "off"]
  /\ attempt = [w \in Instances |-> 0]
  /\ local = [w \in Instances |-> NoLocal]
  /\ result = [w \in Instances |-> <<>>]
  /\ cache = [w \in Instances |->
                IF w = 2
                  THEN [present |-> TRUE, instanceId |-> 2,
                        addresses |-> AddressList(SeedPerInstance)]
                  ELSE NoCache]
  /\ source = [w \in Instances |-> "none"]
  /\ rpc = [w \in Instances |-> "idle"]
  /\ rscan = [w \in Instances |-> NoScan]
  /\ rlocal = [w \in Instances |-> NoLocal]
  /\ rattempt = [w \in Instances |-> 0]

\* a PUT of w is pending with the ETag registry.json has now
PutPending(w) ==
  \/ pc[w] = "put" /\ local[w].etag = etag
  \/ rpc[w] = "put" /\ rlocal[w].etag = etag

\* another process commits a write of registry.json that leaves the fields above as they
\* are and renews lastUpdated (a re-seed with the same address list): a new ETag; only
\* the writes that fall between a read and its PUT are followed
RegistryTouched ==
  /\ 0 < etag /\ etag < MaxWrites
  /\ \E w \in Instances : PutPending(w)
  /\ etag' = etag + 1
  /\ UNCHANGED <<now, registry, hbFile, running, pc, attempt, local, result, cache, source,
                 rpc, rscan, rlocal, rattempt>>
  /\ UNCHANGED <<ledgerVars, orchVars, trackerVars, seedVars, challengeVars, submitVars, stateVars>>

NextContention ==
  \/ RegistryTouched
  \/ \E w \in Instances \ {2} : Boot(w)
  \/ \E w \in Instances : StartupRetry(w)
  \/ \E w \in Instances : ReserveAddressesGet(w)
  \/ \E w \in Instances : ReserveAddressesPut(w)
  \/ \E w \in Instances : CleanupRegistryScan(w)
  \/ \E w \in Instances : CleanupRegistryGet(w)
  \/ \E w \in Instances : CleanupRegistryPut(w)

SpecContention == InitContention /\ [][NextContention]_vars

\* C30 (CAS exhaustion is reported): each registry read-modify-write loop makes at most
\* its bounded number of attempts (10 for the allocator, 60 for the reclaimer) and, when
\* every attempt ends in a precondition failure, terminates with a failure outcome, never
\* with a success outcome.
C30_CasExhaustionReported ==
  [][\A w \in Instances :
       /\ attempt'[w] < MAX_RETRIES /\ rattempt'[w] < CLEANUP_MAX_RETRIES
       /\ (ReserveAddressesPut(w) /\ ~IfMatch(local[w].etag) /\ attempt[w] = MAX_RETRIES - 1)
            => pc'[w] = "failed"
       /\ (CleanupRegistryPut(w) /\ ~IfMatch(rlocal[w].etag)
             /\ rattempt[w] = CLEANUP_MAX_RETRIES - 1)
            => rpc'[w] = "failed"]_vars

\* ------------------------------------------------- heartbeat object lifecycle
\* C31 (heartbeat lifecycle): when a reclaimer run commits the removal of assignment
\* i from the registry, no heartbeats/{i}.json object remains afterwards.
C31_HeartbeatDeletedOnReclaim ==
  [][\A w \in Instances :
       ReclaimCommits(w) =>
         \A i \in DOMAIN registry.assignments \ DOMAIN registry'.assignments :
           i \notin DOMAIN hbFile']_vars

\* ------------------------------------------------ release of a work item
\* C32 (release on no solution or crash): when the miner of worker m ends without a
\* solution, with an error or aborted, the work item stays in the queue, nothing is
\* submitted or recorded for it, and it is in progress afterwards only when the same
\* worker loop has taken it again at once; while its challenge is open it is either
\* taken again or free with the worker loop still running.
C32_ReleaseOnNoSolution ==
  [][\A m \in Miners, outcome \in {"none", "error"} :
       MineEnds(m, outcome) =>
         LET item == witem[m] IN
           /\ queue' = queue
           /\ \E i \in DOMAIN queue' : queue'[i] = item
           /\ wpc'[m] # "submitting" /\ postedAt' = postedAt
           /\ solved' = solved
           /\ item \in inProgress' => (witem'[m] = item /\ wpc'[m] = "mining")
           /\ ~Expired(item, clock) =>
                \/ item \in inProgress'
                \/ wpc'[m] = "mining"]_vars

\* C32 witness: a worker loop released an item and is mining again while the item is
\* still queued and unsolved and no POST is in flight.
C32_Witness ==
  \E m \in Miners :
    /\ wlast[m] = "released" /\ wpc[m] = "mining"
    /\ \A i \in WorkItems : ~Expired(i, clock) => \E k \in DOMAIN queue : queue[k] = i
    /\ solved = {}
    /\ \A x \in Miners : postedAt[x] = 0 /\ wpc[x] # "submitting"
    /\ clock > 0

\* ------------------------------------------------------ solution submission
\* an error message, modelled as the sequence of its words
\* String.prototype.includes
Includes(message, pattern) ==
  \E i \in 1..(Len(message) - Len(pattern) + 1) :
    SubSeq(message, i, i + Len(pattern) - 1) = pattern

\* faulty variant (checks C34): every failed POST is taken for a duplicate
AlreadyExistsAlways(message) == TRUE

\* submitSolution (orchestrator): error.message.includes("already exists")
AlreadyExists(message) == Includes(message, <<"already", "exists">>)

\* the HTTP status codes the POST is answered with, and the bodies of an error answer
\* (none, or the API's message)
SubmitStatuses == {201, 409, 400, 500}
SubmitErrorBodies ==
  {<<>>, <<"Invalid", "nonce">>, <<"Solution", "already", "exists">>}

\* ScavengerMineAPI.submitSolution: the receipt, or the Error thrown: "Solution already
\* exists" for 409, "Failed to submit solution: " + the body when there is one, else
\* handleApiError's "Failed to submit solution: " + the axios message
ApiSubmitSolution(status, body) ==
  IF status \in 200..299 THEN [receipt |-> TRUE, message |-> <<>>]
  ELSE IF status = 409
    THEN [receipt |-> FALSE, message |-> <<"Solution", "already", "exists">>]
  ELSE IF body # <<>>
    THEN [receipt |-> FALSE, message |-> <<"Failed", "to", "submit", "solution:">> \o body]
  ELSE [receipt |-> FALSE,
        message |-> <<"Failed", "to", "submit", "solution:", "Request", "failed",
                      "with", "status", "code">>]

\* submitSolution (orchestrator) of process r: the POST is answered; a receipt and an
\* "already exists" error lead to recordSolution, any other error to recordError
SubmitSolution(r, address, challengeId, nonce, isDonation, status, body) ==
  LET answer == ApiSubmitSolution(status, body)
      kind == IF answer.receipt THEN "receipt"
              ELSE IF AlreadyExists(answer.message) THEN "duplicate" ELSE "other"
  IN /\ sub' = [sub EXCEPT ![r] = [kind |-> kind, address |-> address,
                                   challengeId |-> challengeId,
                                   isDonation |-> isDonation,
                                   message |-> answer.message]]
     /\ IF kind = "other"
          THEN RecordErrorCalled(r, address, challengeId)
          ELSE RecordSolutionCalled(r, address, challengeId, nonce, isDonation)

\* the worker's address list and the open challenge
SubmitAddresses == AscendingList(LedgerAddresses)
SubmitChallengeList ==
  [c \in Challenges |-> [challengeId |-> c, difficulty |-> <<0, 0, 0, 0, 0, 7, 15, 15>>]]

\* two orchestrator processes submit solutions of regular work items one after the other; each preloads its
\* cache once and builds its queue at any time between two submissions; every read of
\* a solutions file succeeds and the donation endpoint answers
NextSubmit ==
  \/ \E r \in Recorders, a \in LedgerAddresses, c \in Challenges,
        status \in SubmitStatuses, body \in SubmitErrorBodies :
       /\ AllRecordersIdle
       /\ calls[1] + calls[2] < MaxSubmissions
       /\ SubmitSolution(r, a, c, 1, FALSE, status, body)
  \/ \E r \in Recorders : RecordSolutionLoad(r)
  \/ \E r \in Recorders : RecordSolutionPut(r)
  \/ \E r \in Recorders : UpdateStatsGet(r)
  \/ \E r \in Recorders : UpdateStatsPut(r)
  \/ \E r \in Recorders : UpdateStatsWithErrorGet(r)
  \/ \E r \in Recorders : UpdateStatsWithErrorPut(r)
  \/ \E r \in Recorders :
       AllRecordersIdle /\ PreloadSolutions(r, SubmitAddresses, {})
  \/ \E r \in Recorders :
       AllRecordersIdle /\ WorkQueueBuild(r, SubmitAddresses, SubmitChallengeList, 0,
                                          TRUE, {})

SpecSubmit == Init /\ [][NextSubmit]_vars

\* the queue of process r holds a regular work item for the pair (address, challengeId)
Emitted(queue_r, address, challengeId) ==
  \E i \in DOMAIN queue_r :
    ~queue_r[i].isDonation /\ queue_r[i].id = <<address, challengeId>>

\* C33 (duplicate submission): when the POST of a regular pair was answered with
\* "already exists", the recordSolution call made for it leaves the pair in
\* solutions/{address}.json and hasSolution true for it when it returns, and no build
\* of that process made afterwards emits the pair.
C33_DuplicateIsRecorded ==
  [][\A r \in Recorders :
       /\ (ReturnsTrue(r) /\ sub[r].kind = "duplicate" /\ ~sub[r].isDonation)
            => /\ RecordedIn(sub[r].address, sub[r].challengeId)'
               /\ HasSolution(r, sub[r].address, sub[r].challengeId, TRUE)'
       /\ (wq'[r] # wq[r] /\ sub[r].kind = "duplicate" /\ ~sub[r].isDonation)
            => ~Emitted(wq'[r].queue, sub[r].address, sub[r].challengeId)]_vars

\* the POST of process r's last submission failed with another error than a duplicate
FailedSubmission(r) ==
  /\ sub[r].kind \notin {"none", "receipt"}
  /\ ~Includes(sub[r].message, <<"already", "exists">>)

InitStats ==
  /\ InitRegistry
  /\ OrchAtRest
  /\ LedgerAtRest
  /\ StatsObject(0)

\* an updateStats PUT of r is pending with the ETag solutions-stats.json has now
StatsPutPending(r) == tpc[r] = "statsPut" /\ tstats[r].etag = statsEtag

\* a process of another instance commits its own updateStats (a donation solution)
\* between the read and the PUT of a pending update: a new ETag
StatsTouched ==
  /\ statsEtag < MaxWrites
  /\ \E r \in Recorders : StatsPutPending(r)
  /\ stats' = [stats EXCEPT
                 !.totalSolutions = @ + 1,
                 !.donationSolutions = @ + 1,
                 !.recentSolutions =
                    UnshiftCapped(@, [address |-> DonationAddress, challengeId |-> 1,
                                      isDonation |-> TRUE])]
  /\ statsEtag' = statsEtag + 1
  /\ UNCHANGED <<solFile, statsBase, tpc, targ, tfile, tstats, tattempt, calls, recorded,
                 recordedErrors>>
  /\ UNCHANGED <<regVars, orchVars, trackerVars, seedVars, challengeVars, submitVars, stateVars>>

\* the recorder followed is process 1; the other writers of the stats object are seen
\* through StatsTouched only
NextStats ==
  \/ StatsTouched
  \/ \E a \in LedgerAddresses, c \in Challenges, d \in BOOLEAN :
       RecordSolution(1, a, c, 1, d)
  \/ RecordSolutionLoad(1)
  \/ RecordSolutionPut(1)
  \/ UpdateStatsGet(1)
  \/ UpdateStatsPut(1)
  \/ tpc[1] = "idle" /\ PreloadSolutions(1, SubmitAddresses, {})

SpecStats == InitStats /\ [][NextStats]_vars

\* the last attempt of r's updateStats loop is answered PreconditionFailed
StatsExhausted(r) ==
  /\ tpc[r] = "statsPut" /\ ~StatsIfMatch(tstats[r].etag)
  /\ tattempt[r] = STATS_MAX_RETRIES - 1

\* C35 (stats are best-effort): updateStats makes at most 5 attempts; while it runs for
\* a regular pair the record written before stays in solutions/{address}.json; when
\* all 5 attempts fail, recordSolution returns with the record in the file, the stats
\* object untouched by it and hasSolution true, so that the pair is not emitted again.
C35_StatsBestEffort ==
  [][\A r \in Recorders :
       /\ tattempt'[r] < STATS_MAX_RETRIES
       /\ (StatsExhausted(r) /\ UpdateStatsPut(r))
            => tpc'[r] = "idle" /\ solFile' = solFile /\ stats' = stats
       /\ \A a \in LedgerAddresses, c \in Challenges :
            (/\ tpc[r] \in {"statsGet", "statsPut"} /\ ~targ[r].isDonation
             /\ targ[r].address = a /\ targ[r].challengeId = c)
              => /\ RecordedIn(a, c)
                 /\ RecordedIn(a, c)'
                 /\ StatsExhausted(r) => HasSolution(r, a, c, TRUE)']_vars

\* C35 witness: a recordSolution call for a regular pair has returned after five
\* failed attempts of updateStats: the record is in the file, the stats count only the
\* five updates of the other instance.
C35_Witness ==
  \E r \in Recorders, a \in LedgerAddresses, c \in Challenges :
    /\ \A q \in Recorders : tpc[q] = "idle" /\ calls[q] = (IF q = r THEN 1 ELSE 0)
    /\ cacheLoaded[r]
    /\ RecordedIn(a, c)
    /\ recorded = 0
    /\ stats.totalSolutions = STATS_MAX_RETRIES
    /\ stats.donationSolutions = STATS_MAX_RETRIES

InitImage ==
  /\ LedgerAtRest /\ NoStatsObject /\ OrchAtRest
  /\ now = 0
  /\ registry = ReserveRange(SeededRegistry(NumAddresses, SeedPerInstance), 1, 0)
  /\ etag = 2
  /\ hbFile = <<>>
  /\ running = [w \in Instances |-> FALSE]
  /\ pc = [w \in Instances |-> "off"]
  /\ attempt = [w \in Instances |-> 0]
  /\ local = [w \in Instances |-> NoLocal]
  /\ result = [w \in Instances |-> <<>>]
  /\ \E copied \in BOOLEAN :
       cache = [w \in Instances |->
                  IF w = 1 \/ copied
                    THEN [present |-> TRUE, instanceId |-> 1,
                          addresses |-> AddressList(SeedPerInstance)]
                    ELSE NoCache]
  /\ source = [w \in Instances |-> "none"]
  /\ rpc = [w \in Instances |-> "idle"]
  /\ rscan = [w \in Instances |-> NoScan]
  /\ rlocal = [w \in Instances |-> NoLocal]
  /\ rattempt = [w \in Instances |-> 0]

NextImage ==
  \/ Tick
  \/ \E w \in Instances : Boot(w)
  \/ \E w \in Instances : Stop(w)
  \/ \E w \in Instances : ReserveAddressesGet(w)
  \/ \E w \in Instances : ReserveAddressesPut(w)

SpecImage == InitImage /\ [][NextImage]_vars

\* C37 (cache ownership check): a run of main() that finds a cache file recorded for
\* another workerId does not return the cached list: it goes on to reserveAddresses.
C37_CacheOwnership ==
  [][\A w \in Instances :
       ((Boot(w) \/ StartupRetry(w)) /\ cache[w].present /\ cache[w].instanceId # w)
         => /\ pc'[w] = "read"
            /\ source'[w] # "cache"
            /\ result'[w] # cache[w].addresses]_vars

\* ------------------------------------------- instance-state reclaimer (C38)
\* instances boot, reserve and stop while the leader runs the instance-state cleanup
NextState ==
  \/ \E w \in Instances : Boot(w)
  \/ \E w \in Instances : Stop(w)
  \/ \E w \in Instances : ReserveAddressesGet(w)
  \/ \E w \in Instances : ReserveAddressesPut(w)
  \/ \E w \in Instances : StateCleanupList(w)
  \/ \E w \in Instances : StateCleanupGet(w)
  \/ \E w \in Instances : StateCleanupPut(w)

SpecState == Init /\ [][NextState]_vars

\* the instance-state cleanup of w commits its conditional PUT
StateReclaimCommits(w) ==
  /\ rlist[w] # {} /\ rpc[w] = "put" /\ rpc'[w] = "idle"
  /\ etag' # etag

\* C38 (Instance-state reclaimer): every assignment that a committed instance-state
\* cleanup removes belongs to an instance that is not running at the commit, also when
\* that instance booted and reserved after the leader listed the running instances
C38_RunningNeverReclaimed ==
  [][\A w \in Instances :
       StateReclaimCommits(w) =>
         \A i \in DOMAIN registry.assignments \ DOMAIN registry'.assignments :
           ~running[i]]_vars

====
